---------------------------- MODULE Spec2Model ----------------------------
(***************************************************************************)
(* Model of labfluence_sync: the one-way synchronisation of satellite      *)
(* locations into the local experiment tree (syncmanager.py,               *)
(* satellite_location.py, dirtreeparsing.py, experimentmanager.py).        *)
(*                                                                         *)
(* The filesystem is one function from paths to nodes.  A path is a        *)
(* sequence of names; a trailing "" component is a trailing '/'.           *)
(* Mtimes are counted in tenths of a second so that sub-second mtimes and  *)
(* Python's round() are represented.                                       *)
(***************************************************************************)
EXTENDS Integers, Sequences, FiniteSets, TLC

VARIABLES fs, locationparams, ioerr, setorder, satstore, proc, gen, lastop

vars == <<fs, locationparams, ioerr, setorder, satstore, proc, gen, lastop>>

(***************************************************************************)
(* Names and their order                                                   *)
(***************************************************************************)

\* All names of the model's universe in the order Python's sorted() gives
\* (ASCII); os.listdir is modelled as listing in this order.
NameOrder ==
    << "RS100 A", "RS100 Adup", "RS100 Exp", "RS100 Title", "RS100a Dup", "RS100a New",
       "RS100a Sub", "RS100b Other", "RS101 Two", "RS101a Gel", "RS200 Far",
       "RS200a Remote", "RS300 Local", "Thumbs.db", "data.gel", "home", "img.png",
       "imgs", "local", "note.txt", "old RS100 A", "old RS100a Sub", "satA", "satB" >>

Last(p) == p[Len(p)]

Front(p) == SubSeq(p, 1, Len(p) - 1)

(***************************************************************************)
(* os.path                                                                 *)
(***************************************************************************)

\* os.path.join(path, name) for a relative name: no second separator is
\* added after a trailing one.
Join(p, n) == IF Len(p) > 0 /\ Last(p) = "" THEN Append(Front(p), n) ELSE Append(p, n)

\* os.path.basename: the part after the last separator ('' after a trailing '/').
Basename(p) == IF Len(p) = 0 THEN "" ELSE Last(p)

\* os.path.dirname
Dirname(p) == IF Len(p) = 0 THEN <<>> ELSE Front(p)

\* os.path.normpath: empty components (doubled or trailing separators) and '.' go.
Normpath(p) == SelectSeq(p, LAMBDA n : n # "" /\ n # ".")

\* str + '/'
AddSlash(p) == Append(p, "")

IsPrefix(r, p) == Len(r) <= Len(p) /\ SubSeq(p, 1, Len(r)) = r

(***************************************************************************)
(* Filesystem nodes                                                        *)
(***************************************************************************)

DirNode == [kind |-> "dir", mtime |-> 0, data |-> ""]

FileNode(m, d) == [kind |-> "file", mtime |-> m, data |-> d]

\* An entry that exists but is neither a regular file nor a directory.
OtherNode == [kind |-> "other", mtime |-> 0, data |-> ""]

Absent == [kind |-> "absent", mtime |-> 0, data |-> ""]

\* os.stat following the path: 'x/' resolves only when x is a directory.
Stat(f, p) ==
    LET np == Normpath(p)
    IN  IF np \notin DOMAIN f THEN Absent
        ELSE IF Len(p) > 0 /\ Last(p) = "" /\ f[np].kind # "dir" THEN Absent
        ELSE f[np]

Exists(f, p) == Stat(f, p).kind # "absent"

IsDir(f, p) == Stat(f, p).kind = "dir"

IsFile(f, p) == Stat(f, p).kind = "file"

Getmtime(f, p) == Stat(f, p).mtime

\* os.listdir of a directory: the names of its children.
Listdir(f, p) ==
    LET np == Normpath(p)
    IN  SelectSeq(NameOrder, LAMBDA n : Append(np, n) \in DOMAIN f)

(***************************************************************************)
(* shutil                                                                  *)
(***************************************************************************)

\* A source that cannot be copied: unreadable (ioerr) or a special file.
CopyFails(f, bad, src) == Normpath(src) \in bad \/ Stat(f, src).kind # "file"

\* shutil.copy2(src, dst): content and mtime of src are written to dst, or
\* to dst/basename(src) when dst is a directory.
Copy2(f, src, dst) ==
    LET target == IF IsDir(f, dst) THEN Join(dst, Basename(src)) ELSE dst
    IN  (Normpath(target) :> Stat(f, src)) @@ f

\* shutil.copytree(src, dst): makedirs(dst), then every child is copied,
\* directories recursively, everything else with copy2; errors are collected
\* and raised after all children were tried.  Result: [fs, err].
RECURSIVE CopyTree(_, _, _, _)
RECURSIVE CopyTreeItems(_, _, _, _, _)
CopyTreeItems(r, bad, names, src, dst) ==
    IF names = <<>> THEN r
    ELSE LET n == Head(names)
             srcname == Join(src, n)
             dstname == Join(dst, n)
             r1 == IF IsDir(r.fs, srcname)
                       THEN LET sub == CopyTree(r.fs, bad, srcname, dstname)
                            IN  [fs |-> sub.fs, err |-> r.err \/ sub.err]
                   ELSE IF CopyFails(r.fs, bad, srcname)
                       THEN [fs |-> r.fs, err |-> TRUE]
                   ELSE [fs |-> Copy2(r.fs, srcname, dstname), err |-> r.err]
         IN  CopyTreeItems(r1, bad, Tail(names), src, dst)

CopyTree(f, bad, src, dst) ==
    LET made == (Normpath(dst) :> DirNode) @@ f
    IN  CopyTreeItems([fs |-> made, err |-> FALSE], bad, Listdir(f, src), src, dst)

(***************************************************************************)
(* Configuration                                                           *)
(***************************************************************************)

\* The satellite locations of the configuration, as getLocationsSorted orders them.
LocationsSorted == << "satA", "satB" >>

Locations == { LocationsSorted[i] : i \in DOMAIN LocationsSorted }

\* local_exp_subDir: the directory that holds the local experiment folders.
LocalExpSubDir == << "local" >>

\* The tolerance, in seconds, added to the destination's mtime.
ToleranceSeconds == 10

\* fnmatch.fnmatch(filename, pat) over the names of the model's universe.
Fnmatch(filename, pat) ==
    \/ pat = "*.db" /\ filename \in {"Thumbs.db"}
    \/ pat = "*.png" /\ filename \in {"img.png"}
    \/ pat = filename

\* Python 3 round() of an mtime given in tenths of a second: to the nearest
\* second, a half to the even one.
Round(t) ==
    LET q == t \div 10
        r == t % 10
    IN  IF r < 5 THEN q
        ELSE IF r > 5 THEN q + 1
        ELSE IF q % 2 = 0 THEN q ELSE q + 1

\* SatelliteFileLocation.getRealPath for the absolute paths the matcher yields:
\* os.path.join drops URI and Rootdir before an absolute path; normpath remains.
GetRealPath(path) == Normpath(path)

(***************************************************************************)
(* One-way sync primitives.  A world w is the filesystem together with     *)
(* what a call has printed (report), the copy calls it made (calls) and    *)
(* the exception that is propagating, if any (raised).                     *)
(***************************************************************************)

World(f) ==
    [fs |-> f, report |-> <<>>, calls |-> <<>>, synced |-> <<>>, reconciled |-> <<>>, raised |-> "none"]

Line(sym, what, src, dst) == [sym |-> sym, what |-> what, src |-> src, dst |-> dst]

\* if verbosity > lim: print(line).  The verbosity only decides what is
\* printed, so a pass records every line with its threshold lim, and
\* Printed gives what a verbosity prints of it.
Say(w, lim, line) == [w EXCEPT !.report = Append(@, [lim |-> lim, line |-> line])]

Printed(report, verbosity) ==
    LET shown == SelectSeq(report, LAMBDA l : verbosity > l.lim)
    IN  [i \in DOMAIN shown |-> shown[i].line]

\* shutil.copy2 called whether or not dryrun is set.
DoCopy2Always(w, bad, src, dst, dryrun) ==
    IF CopyFails(w.fs, bad, src)
        THEN [w EXCEPT !.calls = Append(@, [fn |-> "copy2", src |-> src, dst |-> dst, ok |-> FALSE]),
                       !.raised = "OSError"]
    ELSE [w EXCEPT !.fs = Copy2(w.fs, src, dst),
                   !.calls = Append(@, [fn |-> "copy2", src |-> src, dst |-> dst, ok |-> TRUE])]

\* shutil.copy2 with its arguments exchanged: from the destination to the source.
DoCopy2Reversed(w, bad, src, dst, dryrun) ==
    IF dryrun THEN w
    ELSE IF CopyFails(w.fs, bad, dst)
        THEN [w EXCEPT !.calls = Append(@, [fn |-> "copy2", src |-> dst, dst |-> src, ok |-> FALSE]),
                       !.raised = "OSError"]
    ELSE [w EXCEPT !.fs = Copy2(w.fs, dst, src),
                   !.calls = Append(@, [fn |-> "copy2", src |-> dst, dst |-> src, ok |-> TRUE])]

\* if not dryrun: shutil.copy2(srcfilepath, destfilepath)
DoCopy2(w, bad, src, dst, dryrun) ==
    IF dryrun THEN w
    ELSE IF CopyFails(w.fs, bad, src)
        THEN [w EXCEPT !.calls = Append(@, [fn |-> "copy2", src |-> src, dst |-> dst, ok |-> FALSE]),
                       !.raised = "OSError"]
    ELSE [w EXCEPT !.fs = Copy2(w.fs, src, dst),
                   !.calls = Append(@, [fn |-> "copy2", src |-> src, dst |-> dst, ok |-> TRUE])]

\* if not dryrun: shutil.copytree(realpath, os.path.join(localpath, foldername))
DoCopyTree(w, bad, src, dst, dryrun) ==
    IF dryrun THEN w
    ELSE LET r == CopyTree(w.fs, bad, src, dst)
         IN  [w EXCEPT !.fs = r.fs,
                       !.calls = Append(@, [fn |-> "copytree", src |-> src, dst |-> dst, ok |-> ~r.err]),
                       !.raised = IF r.err THEN "Error" ELSE "none"]

\* The overwrite test with the tolerance added on the source's side.
SrcNewerWrongSide(srcmtime, destmtime) == Round(srcmtime) + ToleranceSeconds > Round(destmtime)

\* The overwrite test with >= for >.
SrcNewerOrEqual(srcmtime, destmtime) == Round(srcmtime) >= Round(destmtime) + ToleranceSeconds

\* The overwrite test of syncFileToLocalDir.
SrcNewer(srcmtime, destmtime) == Round(srcmtime) > Round(destmtime) + ToleranceSeconds

\* any(fnmatch.fnmatch(filename, pat) for pat in self.FileExcludePatterns)
Excluded(params, filename) ==
    \E i \in DOMAIN params.file_exclude_patterns :
        Fnmatch(filename, params.file_exclude_patterns[i])

SyncFileToLocalDir(w, params, bad, satellitepath, localpath, dryrun) ==
    IF w.raised # "none" THEN w
    ELSE IF ~IsDir(w.fs, localpath) THEN w
    ELSE LET srcfilepath == GetRealPath(satellitepath)
             filename == Basename(srcfilepath)
             destfilepath == Join(localpath, filename)
         IN  IF ~IsFile(w.fs, srcfilepath)
                 THEN Say(w, 0, Line("S!", "skipping", srcfilepath, <<"<src is not a file>">>))
             ELSE IF Excluded(params, filename)
                 THEN Say(w, 1, Line("Excluding", "file", srcfilepath, <<>>))
             ELSE IF ~Exists(w.fs, destfilepath)
                 THEN DoCopy2(Say(w, 0, Line("N", "copy2", srcfilepath, destfilepath)),
                              bad, srcfilepath, destfilepath, dryrun)
             ELSE IF IsDir(w.fs, destfilepath)
                 THEN Say(w, 0, Line("S!", "skipping", srcfilepath, <<"<dest is a directory (unexpected)>">>))
             ELSE IF ~IsFile(w.fs, destfilepath)
                 THEN Say(w, 0, Line("S!", "skipping", srcfilepath, <<"<dest is not a file (unexpected)>">>))
             ELSE IF SrcNewer(Getmtime(w.fs, srcfilepath), Getmtime(w.fs, destfilepath))
                 THEN DoCopy2(Say(w, 0, Line("O", "copy2", srcfilepath, destfilepath)),
                              bad, srcfilepath, destfilepath, dryrun)
             ELSE Say(w, 1, Line("S", "skipping", srcfilepath, destfilepath))

\* syncToLocalDir that replaces an existing local folder by a copy of the
\* remote one (rmtree, then copytree) instead of merging into it.
SyncToLocalDirReplacing(w, params, bad, satellitepath, localpath, dryrun) ==
    IF w.raised # "none" THEN w
    ELSE IF ~IsDir(w.fs, localpath) THEN w
    ELSE LET realpath == GetRealPath(satellitepath)
             foldername == Basename(satellitepath)
             dest == Join(localpath, foldername)
             removed == [p \in {q \in DOMAIN w.fs : ~IsPrefix(Normpath(dest), q)} |-> w.fs[p]]
         IN  IF IsFile(w.fs, realpath)
                 THEN SyncFileToLocalDir(w, params, bad, satellitepath, localpath, dryrun)
             ELSE IF ~IsDir(w.fs, realpath) THEN w
             ELSE IF ~Exists(w.fs, dest)
                 THEN DoCopyTree(Say(w, 0, Line("N", "copytree", realpath, dest)),
                                 bad, realpath, dest, dryrun)
             ELSE DoCopyTree(Say([w EXCEPT !.fs = IF dryrun THEN @ ELSE removed], 0,
                                 Line("O", "copytree", realpath, dest)),
                             bad, realpath, dest, dryrun)

RECURSIVE SyncToLocalDir(_, _, _, _, _, _)
RECURSIVE SyncItems(_, _, _, _, _, _, _)
\* for item in os.listdir(realpath): self.syncToLocalDir(join(satellitepath, item), join(localpath, foldername))
SyncItems(w, params, bad, items, satellitepath, dest, dryrun) ==
    IF items = <<>> \/ w.raised # "none" THEN w
    ELSE SyncItems(SyncToLocalDir(w, params, bad, Join(satellitepath, Head(items)), dest, dryrun),
                   params, bad, Tail(items), satellitepath, dest, dryrun)

SyncToLocalDir(w, params, bad, satellitepath, localpath, dryrun) ==
    IF w.raised # "none" THEN w
    ELSE IF ~IsDir(w.fs, localpath) THEN w
    ELSE LET realpath == GetRealPath(satellitepath)
             foldername == Basename(satellitepath)
             dest == Join(localpath, foldername)
         IN  IF IsFile(w.fs, realpath)
                 THEN SyncFileToLocalDir(w, params, bad, satellitepath, localpath, dryrun)
             ELSE IF ~IsDir(w.fs, realpath) THEN w
             ELSE IF ~Exists(w.fs, dest)
                 THEN DoCopyTree(Say(w, 0, Line("N", "copytree", realpath, dest)),
                                 bad, realpath, dest, dryrun)
             ELSE SyncItems(w, params, bad, Listdir(w.fs, realpath), satellitepath, dest, dryrun)

(***************************************************************************)
(* Directory tree parsing                                                  *)
(***************************************************************************)

NoMatch == [nomatch |-> TRUE]

\* regexs[schemekey].search(foldername).groupdict(): the pattern may match
\* anywhere in the name, as in 'old RS100 A'.
RegexSearch(schemekey, foldername) ==
    IF schemekey = "experiment" THEN
        CASE foldername \in {"RS100 A", "RS100 Adup", "RS100 Exp", "RS100 Title", "old RS100 A"}
                -> [expid |-> "RS100"]
          [] foldername = "RS101 Two" -> [expid |-> "RS101"]
          [] foldername = "RS200 Far" -> [expid |-> "RS200"]
          [] foldername = "RS300 Local" -> [expid |-> "RS300"]
          [] OTHER -> NoMatch
    ELSE IF schemekey = "subentry" THEN
        CASE foldername \in {"RS100a Dup", "RS100a New", "RS100a Sub", "old RS100a Sub"}
                -> [expid |-> "RS100", subentry_idx |-> "a"]
          [] foldername = "RS100b Other" -> [expid |-> "RS100", subentry_idx |-> "b"]
          [] foldername = "RS101a Gel" -> [expid |-> "RS101", subentry_idx |-> "a"]
          [] foldername = "RS200a Remote" -> [expid |-> "RS200", subentry_idx |-> "a"]
          [] OTHER -> NoMatch
    ELSE NoMatch

\* regexs[schemekey].match(foldername).groupdict() over the names of the
\* model's universe, for the patterns
\*   year:       (?P<year>[0-9]{4})
\*   experiment: (?P<expid>RS[0-9]{3})[_ ]+(?P<exp_titledesc>.+)
\*   subentry:   (?P<expid>RS[0-9]{3})(?P<subentry_idx>[a-z])[_ ]+(?P<subentry_titledesc>.+)
\* (the title groups, which no catalog reads, are left out).
RegexMatch(schemekey, foldername) ==
    IF schemekey = "experiment" THEN
        CASE foldername \in {"RS100 A", "RS100 Adup", "RS100 Exp", "RS100 Title"} -> [expid |-> "RS100"]
          [] foldername = "RS101 Two" -> [expid |-> "RS101"]
          [] foldername = "RS200 Far" -> [expid |-> "RS200"]
          [] foldername = "RS300 Local" -> [expid |-> "RS300"]
          [] OTHER -> NoMatch
    ELSE IF schemekey = "subentry" THEN
        CASE foldername \in {"RS100a Dup", "RS100a New", "RS100a Sub"}
                -> [expid |-> "RS100", subentry_idx |-> "a"]
          [] foldername = "RS100b Other" -> [expid |-> "RS100", subentry_idx |-> "b"]
          [] foldername = "RS101a Gel" -> [expid |-> "RS101", subentry_idx |-> "a"]
          [] foldername = "RS200a Remote" -> [expid |-> "RS200", subentry_idx |-> "a"]
          [] OTHER -> NoMatch
    ELSE NoMatch

\* self.Regexs[schemekey].match(foldername).groupdict() for the regexs a
\* location is configured with: "default" is the set above; "untagged" is a
\* set whose experiment pattern has no group 'expid' and whose subentry
\* pattern has no group 'subentry_idx',
\*   experiment: RS[0-9]{3}[_ ]+(?P<exp_titledesc>.+)
\*   subentry:   (?P<expid>RS[0-9]{3})[a-z][_ ]+(?P<subentry_titledesc>.+)
\* (the value of a title group, which nothing reads, is written "*").
RegexsMatch(regexs, schemekey, foldername) ==
    LET match == RegexMatch(schemekey, foldername)
    IN  IF regexs # "untagged" \/ match = NoMatch THEN match
        ELSE IF schemekey = "experiment" THEN [exp_titledesc |-> "*"]
        ELSE [expid |-> match.expid, subentry_titledesc |-> "*"]

EmptyDict == [k \in {} |-> k]

\* dict(basematch, **match.groupdict()): the deeper level's groups win.
MergeGroupdict(basematch, gd) == gd @@ basematch

\* [key for key in folderscheme.split('/') if key and key != '.']
Schemekeys(folderscheme) == SelectSeq(folderscheme, LAMBDA k : k # "" /\ k # ".")

IndexOf(seq, x) == CHOOSE i \in DOMAIN seq : seq[i] = x /\ \A j \in 1..(i - 1) : seq[j] # x

\* dirtreeparsing.getFolderschemeUpTo, on the scheme split at '/'.
GetFolderschemeUpTo(folderscheme, rightmost) ==
    LET schemekeys == SelectSeq(folderscheme, LAMBDA k : k # "")
    IN  SubSeq(schemekeys, 1, IndexOf(schemekeys, rightmost))

\* The default filter of a satellite location:
\* self.isdir(path) and self.path.basename(path) not in self.IgnoreDirs
DefaultFilter(f, params, path) == IsDir(f, path) /\ Basename(path) \notin params.ignoredirs

\* genitems of genPathmatchTupsByPathscheme with the groupdict combiner,
\* fully consumed: the sequence of [path, gd] of the deepest scheme level.
RECURSIVE GenItems(_, _, _, _, _)
RECURSIVE GenItemsIn(_, _, _, _, _, _)
GenItemsIn(f, params, schemekeys, basefolder, basematch, foldernames) ==
    IF foldernames = <<>> THEN <<>>
    ELSE LET foldername == Head(foldernames)
             folderpath == Join(basefolder, foldername)
             match == RegexsMatch(params.regexs, schemekeys[1], foldername)
             rest == GenItemsIn(f, params, schemekeys, basefolder, basematch, Tail(foldernames))
         IN  IF ~(IsDir(f, basefolder) /\ DefaultFilter(f, params, folderpath)) \/ match = NoMatch
                THEN rest
             ELSE IF Len(schemekeys) > 1
                THEN GenItems(f, params, Tail(schemekeys), folderpath, MergeGroupdict(basematch, match)) \o rest
             ELSE <<[path |-> folderpath, gd |-> MergeGroupdict(basematch, match)]>> \o rest

GenItems(f, params, schemekeys, basefolder, basematch) ==
    GenItemsIn(f, params, schemekeys, basefolder, basematch, Listdir(f, basefolder))

\* SatelliteLocation.genPathGroupdictTupByPathscheme(rightmost=...)
GenPathGroupdictTupByPathscheme(f, params, rightmost) ==
    GenItems(f, params, Schemekeys(GetFolderschemeUpTo(params.folderscheme, rightmost)),
             GetRealPath(params.rootdir), EmptyDict)

\* One call of the location's filesystem interface: fs.listdir(path),
\* fs.path.isdir(path) or, inside the default filter, self.isdir(path).
FsCall(fn, path) == [fn |-> fn, path |-> path]

\* The filesystem calls made while the sequence built by genitems is consumed
\* to its end, without the fs.listdir(basefolder) made when it is built:
\* for every listed name fs.path.isdir(basefolder), then the filter's
\* self.isdir(folderpath), then, for a match at an inner level, the calls of
\* the nested genitems(remainingschemekeys, folderpath, matchdict).
RECURSIVE GenItemsCalls(_, _, _, _)
RECURSIVE GenItemsInCalls(_, _, _, _, _)
GenItemsInCalls(f, params, schemekeys, basefolder, foldernames) ==
    IF foldernames = <<>> THEN <<>>
    ELSE LET foldername == Head(foldernames)
             folderpath == Join(basefolder, foldername)
             match == RegexsMatch(params.regexs, schemekeys[1], foldername)
             filtercalls == <<FsCall("isdir", basefolder)>>
                            \o (IF IsDir(f, basefolder) THEN <<FsCall("isdir", folderpath)>> ELSE <<>>)
             nested == IF /\ IsDir(f, basefolder) /\ DefaultFilter(f, params, folderpath)
                          /\ match # NoMatch /\ Len(schemekeys) > 1
                          THEN GenItemsCalls(f, params, Tail(schemekeys), folderpath)
                       ELSE <<>>
         IN  filtercalls \o nested
             \o GenItemsInCalls(f, params, schemekeys, basefolder, Tail(foldernames))

\* The filesystem calls of genitems(schemekeys, basefolder) built and consumed:
\* foldernames = (... for foldername in fs.listdir(basefolder) if ...) lists
\* basefolder when the generator expression is created.
GenItemsCalls(f, params, schemekeys, basefolder) ==
    <<FsCall("listdir", basefolder)>>
    \o GenItemsInCalls(f, params, schemekeys, basefolder, Listdir(f, basefolder))

\* The filesystem calls made by the call genPathmatchTupsByPathscheme(...)
\* itself, before any item is requested: genitems is a plain function whose
\* first statement with a filesystem call is the creation of the generator
\* expression over fs.listdir(basefolder); the nested generator expressions
\* take generator objects as their iterables.
GenConstructCalls(f, params, rightmost) ==
    <<FsCall("listdir", GetRealPath(params.rootdir))>>

\* The filesystem calls of list(self.genPathGroupdictTupByPathscheme(rightmost=...)).
GenConsumeCalls(f, params, rightmost) ==
    GenItemsCalls(f, params, Schemekeys(GetFolderschemeUpTo(params.folderscheme, rightmost)),
                  GetRealPath(params.rootdir))

(***************************************************************************)
(* The sequence built by genPathmatchTupsByPathscheme, item by item.  The  *)
(* generator object is a stack of genitems frames, one per scheme level    *)
(* entered; a frame holds the names of fs.listdir(basefolder) not yet      *)
(* looked at.  Here the filesystem may hold symbolic links and directories *)
(* that cannot be listed.                                                  *)
(***************************************************************************)

\* A symbolic link to the top-level directory called root.
LinkNode(root) == [kind |-> "link", mtime |-> 0, data |-> root]

\* The path with every symbolic link on it followed, as the operating
\* system resolves it.
RECURSIVE Realpath(_, _, _)
Realpath(f, resolved, rest) ==
    IF rest = <<>> THEN resolved
    ELSE LET q == Append(resolved, Head(rest))
         IN  IF q \in DOMAIN f /\ f[q].kind = "link"
                THEN Realpath(f, <<f[q].data>>, Tail(rest))
             ELSE Realpath(f, q, Tail(rest))

\* os.path.isdir: follows links; False for a broken link or a missing path.
OsIsDir(f, p) ==
    LET r == Realpath(f, <<>>, Normpath(p))
    IN  r \in DOMAIN f /\ f[r].kind = "dir"

\* os.listdir: follows links; raises OSError (ok = FALSE) for a path that is
\* no directory or a directory that cannot be read (bad).
OsListdir(f, bad, p) ==
    LET r == Realpath(f, <<>>, Normpath(p))
    IN  IF r \in DOMAIN f /\ f[r].kind = "dir" /\ r \notin bad
            THEN [ok |-> TRUE, names |-> SelectSeq(NameOrder, LAMBDA n : Append(r, n) \in DOMAIN f)]
        ELSE [ok |-> FALSE, names |-> <<>>]

\* The keys of the regexs dict a location is configured with: "nosubentry"
\* and "noexperiment" are the default patterns without that one key.
PatternKeys(regexs) ==
    CASE regexs = "nosubentry" -> {"year", "experiment"}
      [] regexs = "noexperiment" -> {"year", "subentry"}
      [] OTHER -> {"year", "experiment", "subentry"}

\* default_filter of SatelliteLocation.genPathmatchTupsByPathscheme:
\* self.isdir(path) and self.path.basename(path) not in self.IgnoreDirs
WalkFilter(f, params, path) == OsIsDir(f, path) /\ Basename(path) \notin params.ignoredirs

Frame(schemekeys, basefolder, basematch, names) ==
    [schemekeys |-> schemekeys, basefolder |-> basefolder, basematch |-> basematch, names |-> names]

NoFrame == Frame(<<>>, <<>>, EmptyDict, <<>>)

\* One call genitems(schemekeys, basefolder, basematch) up to its return:
\* regexpat = regexs[schemekey] (KeyError without the key), then the generator
\* expression over fs.listdir(basefolder), which lists basefolder at once.
Genitems(f, params, bad, schemekeys, basefolder, basematch) ==
    IF schemekeys[1] \notin PatternKeys(params.regexs)
        THEN [raised |-> "KeyError", frame |-> NoFrame, fscalls |-> <<>>]
    ELSE IF ~OsListdir(f, bad, basefolder).ok
        THEN [raised |-> "OSError", frame |-> NoFrame, fscalls |-> <<FsCall("listdir", basefolder)>>]
    ELSE [raised |-> "none",
          frame |-> Frame(schemekeys, basefolder, basematch, OsListdir(f, bad, basefolder).names),
          fscalls |-> <<FsCall("listdir", basefolder)>>]

\* A generator object: its status ("none": not built, "open", "done":
\* exhausted, "raised": ended by an exception) and its stack of frames.
Generator(status, loc, stack) == [status |-> status, loc |-> loc, stack |-> stack]

NoItem == [path |-> <<>>, gd |-> EmptyDict]

\* The call genPathmatchTupsByPathscheme(...) of a location:
\* return genitems(schemekeys, basepath, matchinit).
GenBuild(f, params, bad, rightmost) ==
    Genitems(f, params, bad, Schemekeys(GetFolderschemeUpTo(params.folderscheme, rightmost)),
             GetRealPath(params.rootdir), EmptyDict)

\* A frame that is left after one step and stays where it is.
GenNextStaying(frame) == frame

\* The frame after the next name of its listing has been taken.
GenNextName(frame) == [frame EXCEPT !.names = Tail(@)]

\* next(generator): the frames are advanced until an item of the deepest
\* level is produced, the outermost listing is used up (StopIteration) or an
\* exception leaves the generator.  For every name: fs.path.isdir(basefolder),
\* the filter, regexpat.match(foldername); a match at an inner level calls
\* genitems(remainingschemekeys, folderpath, matchdict).
RECURSIVE GenNext(_, _, _, _, _)
RECURSIVE GenNextFrom(_, _, _, _, _)
GenNext(f, params, bad, stack, fscalls) ==
    IF stack = <<>>
        THEN [stack |-> <<>>, outcome |-> "StopIteration", item |-> NoItem, fscalls |-> fscalls]
    ELSE IF Last(stack).names = <<>>
        THEN GenNextFrom(f, params, bad, Front(stack), fscalls)
    ELSE LET top == Last(stack)
             foldername == Head(top.names)
             folderpath == Join(top.basefolder, foldername)
             stack1 == Append(Front(stack), GenNextName(top))
             match == RegexsMatch(params.regexs, top.schemekeys[1], foldername)
             matchdict == MergeGroupdict(top.basematch, match)
             calls1 == Append(fscalls, FsCall("isdir", top.basefolder))
             calls2 == Append(calls1, FsCall("isdir", folderpath))
             nested == Genitems(f, params, bad, Tail(top.schemekeys), folderpath, matchdict)
         IN  IF ~OsIsDir(f, top.basefolder) THEN GenNextFrom(f, params, bad, stack1, calls1)
             ELSE IF ~WalkFilter(f, params, folderpath) \/ match = NoMatch
                THEN GenNextFrom(f, params, bad, stack1, calls2)
             ELSE IF Len(top.schemekeys) = 1
                THEN [stack |-> stack1, outcome |-> "item",
                      item |-> [path |-> folderpath, gd |-> matchdict], fscalls |-> calls2]
             ELSE IF nested.raised # "none"
                THEN [stack |-> <<>>, outcome |-> nested.raised, item |-> NoItem,
                      fscalls |-> calls2 \o nested.fscalls]
             ELSE GenNextFrom(f, params, bad, Append(stack1, nested.frame), calls2 \o nested.fscalls)

\* next() continued from the frames and the call log reached so far.
GenNextFrom(f, params, bad, stack, fscalls) ==
    CHOOSE r \in { GenNext(f, params, bad, s, c) : s \in {stack}, c \in {fscalls} } : TRUE

\* A generator that stays open when its outermost listing is used up.
GenAfterNextStayingOpen(g, r) ==
    IF r.outcome \in {"item", "StopIteration"} THEN [g EXCEPT !.stack = r.stack]
    ELSE Generator("raised", g.loc, <<>>)

\* The generator object after next() has returned r: advanced to behind the
\* item, exhausted ("done") after StopIteration, finished ("raised") after
\* an exception; a generator that has ended stays as it is.
GenAfterNext(g, r) ==
    IF r.outcome = "item" THEN [g EXCEPT !.stack = r.stack]
    ELSE IF g.status # "open" THEN g
    ELSE IF r.outcome = "StopIteration" THEN Generator("done", g.loc, <<>>)
    ELSE Generator("raised", g.loc, <<>>)

\* No sequence has been built by genPathmatchTupsByPathscheme.
NoGenerator == Generator("none", "", <<>>)

\* gd.get('expid')
GdGet(gd, key) == IF key \in DOMAIN gd THEN gd[key] ELSE "None"

\* {gd.get('expid'): path for path, gd in foldermatchtuples}: a later tuple
\* replaces an earlier one with the same key.
RECURSIVE FoldByExpid(_, _)
FoldByExpid(tups, acc) ==
    IF tups = <<>> THEN acc
    ELSE FoldByExpid(Tail(tups), (GdGet(Head(tups).gd, "expid") :> Head(tups).path) @@ acc)

\* SatelliteLocation.getExpfoldersByExpid
GetExpfoldersByExpid(f, params) ==
    FoldByExpid(GenPathGroupdictTupByPathscheme(f, params, "experiment"), EmptyDict)

\* The loop of getSubentryfoldersByExpidSubidx: a tuple without 'expid' or
\* 'subentry_idx' is skipped, foldersbyexpidsubidx.setdefault(expid, {})[subentry_idx] = folderpath.
RECURSIVE FoldByExpidSubidx(_, _)
FoldByExpidSubidx(tups, acc) ==
    IF tups = <<>> THEN acc
    ELSE LET t == Head(tups)
         IN  IF ~({"expid", "subentry_idx"} \subseteq DOMAIN t.gd)
                THEN FoldByExpidSubidx(Tail(tups), acc)
             ELSE LET expid == t.gd["expid"]
                      old == IF expid \in DOMAIN acc THEN acc[expid] ELSE EmptyDict
                  IN  FoldByExpidSubidx(Tail(tups),
                                        (expid :> ((t.gd["subentry_idx"] :> t.path) @@ old)) @@ acc)

\* SatelliteLocation.getSubentryfoldersByExpidSubidx
GetSubentryfoldersByExpidSubidx(f, params) ==
    FoldByExpidSubidx(GenPathGroupdictTupByPathscheme(f, params, "subentry"), EmptyDict)

\* ExperimentManager.getLocalExpsDirGroupdictTuples: the directories of
\* local_exp_subDir in sorted order whose base name the experiment regex matches.
GetLocalExpsDirGroupdictTuples(f) ==
    LET dirnames == SelectSeq(Listdir(f, LocalExpSubDir),
                              LAMBDA n : IsDir(f, Join(LocalExpSubDir, n))
                                         /\ RegexMatch("experiment", n) # NoMatch)
    IN  [i \in DOMAIN dirnames |->
            [path |-> Join(LocalExpSubDir, dirnames[i]), gd |-> RegexMatch("experiment", dirnames[i])]]

\* ExperimentManager.findLocalExpsPathGdTupByExpid (the path of each tuple).
FindLocalExpsPathGdTupByExpid(f) == FoldByExpid(GetLocalExpsDirGroupdictTuples(f), EmptyDict)

(***************************************************************************)
(* SyncManager                                                             *)
(***************************************************************************)

ToSet(seq) == { seq[i] : i \in DOMAIN seq }

\* The keys of a dict in insertion order: the first occurrences in keyseq.
RECURSIVE InsertionOrder(_, _)
InsertionOrder(keyseq, seen) ==
    IF keyseq = <<>> THEN <<>>
    ELSE IF Head(keyseq) \in seen THEN InsertionOrder(Tail(keyseq), seen)
    ELSE <<Head(keyseq)>> \o InsertionOrder(Tail(keyseq), seen \cup {Head(keyseq)})

\* common_expids without the narrowing by onlyexpids.
CommonExpidsUnnarrowed(exps, loc_ds, onlyexpids) == DOMAIN exps \cap DOMAIN loc_ds

\* common_expids = exps.keys() & loc_ds.keys(), narrowed by onlyexpids if given.
CommonExpids(exps, loc_ds, onlyexpids) ==
    LET common == DOMAIN exps \cap DOMAIN loc_ds
    IN  IF onlyexpids # {} THEN common \cap onlyexpids ELSE common

\* satloc.syncToLocalDir(...) as called by the two reconcilers; the call is recorded.
SyncCall(w, params, bad, expid, satellitepath, localpath, dryrun) ==
    IF w.raised # "none" THEN w
    ELSE SyncToLocalDir([w EXCEPT !.synced = Append(@, [root |-> params.rootdir, expid |-> expid,
                                                        src |-> satellitepath, dst |-> localpath])],
                        params, bad, satellitepath, localpath, dryrun)

\* The loop over loc_ds[expid] that leaves out a subentry folder with no
\* same-named folder in the local experiment folder.
RECURSIVE SyncSubfoldersMatched(_, _, _, _, _, _, _, _)
SyncSubfoldersMatched(w, params, bad, expid, subidxs, subfolders, localdirpath, dryrun) ==
    IF subidxs = <<>> THEN w
    ELSE LET subfolder == subfolders[Head(subidxs)]
             w1 == IF Exists(w.fs, Join(localdirpath, Basename(subfolder)))
                       THEN SyncCall(w, params, bad, expid, subfolder, localdirpath, dryrun)
                   ELSE w
         IN  SyncSubfoldersMatched(w1, params, bad, expid, Tail(subidxs), subfolders, localdirpath, dryrun)

\* for subidx, subfolder in loc_ds[expid].items(): satloc.syncToLocalDir(subfolder, localdirpath, ...)
RECURSIVE SyncSubfolders(_, _, _, _, _, _, _, _)
SyncSubfolders(w, params, bad, expid, subidxs, subfolders, localdirpath, dryrun) ==
    IF subidxs = <<>> THEN w
    ELSE SyncSubfolders(SyncCall(w, params, bad, expid, subfolders[Head(subidxs)], localdirpath, dryrun),
                        params, bad, expid, Tail(subidxs), subfolders, localdirpath, dryrun)

\* The subentry indices of loc_ds[expid] in the dict's insertion order.
SubidxItems(tups, expid) ==
    LET mine == SelectSeq(tups, LAMBDA t : {"expid", "subentry_idx"} \subseteq DOMAIN t.gd
                                            /\ t.gd["expid"] = expid)
    IN  InsertionOrder([i \in DOMAIN mine |-> mine[i].gd["subentry_idx"]], {})

\* for expid in common_expids: ... of sync_subentries; expids is common_expids
\* in the order the set is iterated.
RECURSIVE SubentriesLoop(_, _, _, _, _, _, _, _)
SubentriesLoop(w, params, bad, expids, exps, loc_ds, tups, dryrun) ==
    IF expids = <<>> THEN w
    ELSE LET expid == Head(expids)
         IN  SubentriesLoop(SyncSubfolders(w, params, bad, expid, SubidxItems(tups, expid),
                                           loc_ds[expid], exps[expid], dryrun),
                            params, bad, Tail(expids), exps, loc_ds, tups, dryrun)

\* SyncManager.sync_subentries; order is the iteration order of the set common_expids.
SyncSubentries(w, params, bad, onlyexpids, dryrun, order) ==
    LET exps == FindLocalExpsPathGdTupByExpid(w.fs)
        tups == GenPathGroupdictTupByPathscheme(w.fs, params, "subentry")
        loc_ds == FoldByExpidSubidx(tups, EmptyDict)
        common == CommonExpids(exps, loc_ds, onlyexpids)
    IN  SubentriesLoop(w, params, bad, SelectSeq(order, LAMBDA e : e \in common),
                       exps, loc_ds, tups, dryrun)

\* for expid in common_expids: ... of sync_experimentfolders
RECURSIVE ExperimentfoldersLoop(_, _, _, _, _, _, _)
ExperimentfoldersLoop(w, params, bad, expids, exps, loc_ds, dryrun) ==
    IF expids = <<>> THEN w
    ELSE LET expid == Head(expids)
             remotefolder == AddSlash(loc_ds[expid])
         IN  ExperimentfoldersLoop(SyncCall(w, params, bad, expid, remotefolder, exps[expid], dryrun),
                                   params, bad, Tail(expids), exps, loc_ds, dryrun)

\* SyncManager.sync_experimentfolders
SyncExperimentfolders(w, params, bad, onlyexpids, dryrun, order) ==
    LET exps == FindLocalExpsPathGdTupByExpid(w.fs)
        loc_ds == GetExpfoldersByExpid(w.fs, params)
        common == CommonExpids(exps, loc_ds, onlyexpids)
    IN  ExperimentfoldersLoop(w, params, bad, SelectSeq(order, LAMBDA e : e \in common),
                              exps, loc_ds, dryrun)

\* The world with the call self.sync_subentries(remote, ...) or
\* self.sync_experimentfolders(remote, ...) recorded.
Reconciling(w, remote, method) ==
    [w EXCEPT !.reconciled = Append(@, [remote |-> remote, method |-> method])]

\* sync_remote that looks for 'experiment' in the folderscheme first.
SyncRemoteExperimentFirst(w, allparams, bad, remote, onlyexpids, dryrun, order) ==
    LET sl == allparams[remote]
        schemekeys == Schemekeys(sl.folderscheme)
    IN  IF w.raised # "none" THEN w
        ELSE IF "experiment" \in ToSet(schemekeys)
            THEN SyncExperimentfolders(Reconciling(w, remote, "sync_experimentfolders"),
                                       sl, bad, onlyexpids, dryrun, order)
        ELSE IF "subentry" \in ToSet(schemekeys)
            THEN SyncSubentries(Reconciling(w, remote, "sync_subentries"),
                                sl, bad, onlyexpids, dryrun, order)
        ELSE [w EXCEPT !.raised = "NotImplementedError"]

\* SyncManager.sync_remote: the reconciler is chosen by the folderscheme.
SyncRemote(w, allparams, bad, remote, onlyexpids, dryrun, order) ==
    LET satloc == allparams[remote]
        schemekeys == Schemekeys(satloc.folderscheme)
    IN  IF w.raised # "none" THEN w
        ELSE IF "subentry" \in ToSet(schemekeys)
            THEN SyncSubentries(Reconciling(w, remote, "sync_subentries"),
                                satloc, bad, onlyexpids, dryrun, order)
        ELSE IF "experiment" \in ToSet(schemekeys)
            THEN SyncExperimentfolders(Reconciling(w, remote, "sync_experimentfolders"),
                                       satloc, bad, onlyexpids, dryrun, order)
        ELSE [w EXCEPT !.raised = "NotImplementedError"]

\* for key, satloc in satlocs.items(): ... of sync_remotes
RECURSIVE RemotesLoop(_, _, _, _, _, _, _)
RemotesLoop(w, allparams, bad, keys, onlyexpids, dryrun, order) ==
    IF keys = <<>> \/ w.raised # "none" THEN w
    ELSE IF allparams[Head(keys)].donotsync
        THEN RemotesLoop(w, allparams, bad, Tail(keys), onlyexpids, dryrun, order)
    ELSE RemotesLoop(SyncRemote(w, allparams, bad, Head(keys), onlyexpids, dryrun, order),
                     allparams, bad, Tail(keys), onlyexpids, dryrun, order)

\* SyncManager.sync_remotes: the named remotes, or all locations sorted by name.
SyncRemotes(w, allparams, bad, remotes, onlyexpids, dryrun, order) ==
    LET keys == IF remotes # <<>> THEN InsertionOrder(remotes, {}) ELSE LocationsSorted
    IN  RemotesLoop(w, allparams, bad, keys, onlyexpids, dryrun, order)

\* The group argument of getFoldersWithSameProperty: one field name
\* (group='expid') or a tuple/list of field names (group=('expid', 'subentry_idx')).
PlainGroup(name) == [tuple |-> FALSE, names |-> <<name>>]

TupleGroup(names) == [tuple |-> TRUE, names |-> names]

\* A groupgetter that makes a tuple of the values whatever the group argument is.
GroupgetterAlwaysTuple(group, match) ==
    [tuple |-> TRUE, vals |-> [i \in DOMAIN group.names |-> match[group.names[i]]]]

\* groupgetter(match): tuple(match[g] for g in group) when group is a tuple
\* or list, match[group] otherwise.  A key records whether it is a tuple, so
\* that the plain value 'RS100' and the 1-tuple ('RS100',) are different keys.
Groupgetter(group, match) ==
    [tuple |-> group.tuple, vals |-> [i \in DOMAIN group.names |-> match[group.names[i]]]]

\* Exceeds-the-limit variant of the countlim filter.
CountlimFilterStrict(listfoldersbyexp, countlim) ==
    IF countlim = 0 THEN listfoldersbyexp
    ELSE [k \in { k \in DOMAIN listfoldersbyexp : Len(listfoldersbyexp[k]) > countlim } |->
             listfoldersbyexp[k]]

\* if countlim: {expid: folderlist for expid, folderlist in listfoldersbyexp.items()
\*               if len(folderlist) >= countlim}
CountlimFilter(listfoldersbyexp, countlim) ==
    IF countlim = 0 THEN listfoldersbyexp
    ELSE [k \in { k \in DOMAIN listfoldersbyexp : Len(listfoldersbyexp[k]) >= countlim } |->
             listfoldersbyexp[k]]

\* The path of every tuple of a sequence, in order.
PathsOf(tups) == [i \in DOMAIN tups |-> tups[i].path]

\* dirtreeparsing.getFoldersWithSameProperty as called by
\* SatelliteLocation.getFoldersWithSameProperty(group, rightmost, countlim):
\* listfoldersbyexp.setdefault(groupgetter(matchdict), []).append(folderpath)
\* for every tuple, then the countlim filter.  match[g] raises KeyError for a
\* groupdict without g.  Result: [result, raised].
GetFoldersWithSameProperty(f, params, group, rightmost, countlim) ==
    LET tups == GenPathGroupdictTupByPathscheme(f, params, rightmost)
        listfoldersbyexp ==
            [k \in { Groupgetter(group, tups[i].gd) : i \in DOMAIN tups } |->
                PathsOf(SelectSeq(tups, LAMBDA t : Groupgetter(group, t.gd) = k))]
    IN  IF \E i \in DOMAIN tups : ~(ToSet(group.names) \subseteq DOMAIN tups[i].gd)
            THEN [result |-> EmptyDict, raised |-> "KeyError"]
        ELSE [result |-> CountlimFilter(listfoldersbyexp, countlim), raised |-> "none"]

\* SatelliteLocation.getDuplicateExps
GetDuplicateExps(f, params) ==
    GetFoldersWithSameProperty(f, params, PlainGroup("expid"), "experiment", 2)

\* SatelliteLocation.getDuplicateSubentries
GetDuplicateSubentries(f, params) ==
    GetFoldersWithSameProperty(f, params, TupleGroup(<<"expid", "subentry_idx">>), "subentry", 2)

\* SatelliteLocation.getDuplicates(subentries)
GetDuplicates(f, params, subentries) ==
    IF subentries THEN GetDuplicateSubentries(f, params) ELSE GetDuplicateExps(f, params)

(***************************************************************************)
(* The subentry-folder catalog of a SatelliteLocation.  The object holds   *)
(*   subentryfolderset    self._subentryfolderset, the path set,           *)
(*   expidsubidxbyfolder  self._expidsubidxbyfolder, path -> (expid,       *)
(*                        subidx), None until the first update,            *)
(*   cached               the value the cached property                    *)
(*                        SubentryfoldersByExpidSubidx holds, if any:      *)
(*                        ds[expid][subidx] = path.                        *)
(* A Python dict is a function; the three collections are separate         *)
(* objects, and a local name bound to one of them is the object itself.    *)
(***************************************************************************)

NoneDict == [none |-> TRUE, d |-> EmptyDict]

SomeDict(d) == [none |-> FALSE, d |-> d]

NotCached == [has |-> FALSE, value |-> EmptyDict]

\* SatelliteLocation.__init__
NewSatelliteLocation ==
    [subentryfolderset |-> {}, expidsubidxbyfolder |-> NoneDict, cached |-> NotCached]

\* The experiment ids and subentry indices of the model's universe in sorted
\* order; a directory is listed in sorted order, so the items of a dict built
\* from a listing come in this order.
ExpidOrder == <<"RS100", "RS101", "RS200", "RS300">>

SubidxOrder == <<"a", "b">>

IdentityBefore(k1, k2) ==
    \/ IndexOf(ExpidOrder, k1[1]) < IndexOf(ExpidOrder, k2[1])
    \/ k1[1] = k2[1] /\ IndexOf(SubidxOrder, k1[2]) <= IndexOf(SubidxOrder, k2[2])

\* The (expid, subidx) pairs of ds[expid][subidx].
Identities(ds) == UNION { { <<e, i>> : i \in DOMAIN ds[e] } : e \in DOMAIN ds }

\* A reverse index whose values are (subidx, expid).
ExpidSubidxByFolderSwapped(ds) ==
    [p \in { ds[k[1]][k[2]] : k \in Identities(ds) } |->
        CHOOSE s \in { <<k[2], k[1]>> : k \in { k \in Identities(ds) : ds[k[1]][k[2]] = p } } : TRUE]

\* {subentryfolder: (expid, subidx) for expid, expdict in foldersbyexpidsubidx.items()
\*                                  for subidx, subentryfolder in expdict.items()}:
\* of two identities with the same folder the later item stays.
ExpidSubidxByFolderOf(ds) ==
    [p \in { ds[k[1]][k[2]] : k \in Identities(ds) } |->
        CHOOSE k \in Identities(ds) :
            /\ ds[k[1]][k[2]] = p
            /\ \A k2 \in Identities(ds) : ds[k2[1]][k2[2]] = p => IdentityBefore(k2, k)]

\* An update that, given no mapping, takes the value the cached property
\* holds instead of walking the location.
UpdateExpsubfoldersFromCache(loc, f, params, clearcache, mapping) ==
    LET loc1 == IF clearcache THEN [loc EXCEPT !.cached = NotCached] ELSE loc
        foldersbyexpidsubidx == IF mapping.none THEN loc.cached.value ELSE mapping.d
        expidsubidxbyfolder == ExpidSubidxByFolderOf(foldersbyexpidsubidx)
        subentryfoldersset == DOMAIN expidsubidxbyfolder
        newsubentryfolders == subentryfoldersset \ loc.subentryfolderset
    IN  [loc |-> [loc1 EXCEPT !.expidsubidxbyfolder = SomeDict(expidsubidxbyfolder),
                              !.subentryfolderset = subentryfoldersset],
         result |-> << { expidsubidxbyfolder[folder] : folder \in newsubentryfolders },
                       newsubentryfolders, loc.subentryfolderset \ subentryfoldersset >>,
         fscalls |-> <<>>]

\* SatelliteLocation.update_expsubfolders(clearcache, foldersbyexpidsubidx);
\* the mapping argument is NoneDict or SomeDict(ds).
\* Result: [loc, result, fscalls].
UpdateExpsubfolders(loc, f, params, clearcache, mapping) ==
    LET loc1 == IF clearcache THEN [loc EXCEPT !.cached = NotCached] ELSE loc
        foldersbyexpidsubidx ==
            IF mapping.none THEN GetSubentryfoldersByExpidSubidx(f, params) ELSE mapping.d
        expidsubidxbyfolder == ExpidSubidxByFolderOf(foldersbyexpidsubidx)
        subentryfoldersset == DOMAIN expidsubidxbyfolder
        newsubentryfolders == subentryfoldersset \ loc.subentryfolderset
        removedsubentryfolders == loc.subentryfolderset \ subentryfoldersset
        newexpsubidx == { expidsubidxbyfolder[folder] : folder \in newsubentryfolders }
    IN  [loc |-> [loc1 EXCEPT !.expidsubidxbyfolder = SomeDict(expidsubidxbyfolder),
                              !.subentryfolderset = subentryfoldersset],
         result |-> <<newexpsubidx, newsubentryfolders, removedsubentryfolders>>,
         fscalls |-> IF mapping.none THEN GenConsumeCalls(f, params, "subentry") ELSE <<>>]

\* self.SubentryfoldersByExpidSubidx, a cached_property(ttl=60): the value
\* held is returned while it is held; otherwise the method body runs
\* (getSubentryfoldersByExpidSubidx, then update_expsubfolders with the
\* result) and its result is held.  Result: [loc, value, fscalls].
SubentryfoldersByExpidSubidx(loc, f, params) ==
    IF loc.cached.has THEN [loc |-> loc, value |-> loc.cached.value, fscalls |-> <<>>]
    ELSE LET foldersbyexpidsubidx == GetSubentryfoldersByExpidSubidx(f, params)
             u == UpdateExpsubfolders(loc, f, params, FALSE, SomeDict(foldersbyexpidsubidx))
         IN  [loc |-> [u.loc EXCEPT !.cached = [has |-> TRUE, value |-> foldersbyexpidsubidx]],
              value |-> foldersbyexpidsubidx,
              fscalls |-> GenConsumeCalls(f, params, "subentry")]

\* self.ExpidSubidxByFolder.  Result: [loc, value, fscalls].
ExpidSubidxByFolder(loc, f, params) ==
    IF loc.subentryfolderset = {}
        THEN LET u == UpdateExpsubfolders(loc, f, params, FALSE, NoneDict)
             IN  [loc |-> u.loc, value |-> u.loc.expidsubidxbyfolder.d, fscalls |-> u.fscalls]
    ELSE [loc |-> loc, value |-> loc.expidsubidxbyfolder.d, fscalls |-> <<>>]

\* self.Subentryfoldersset.  Result: [loc, value, fscalls].
Subentryfoldersset(loc, f, params) ==
    IF loc.subentryfolderset = {}
        THEN LET u == UpdateExpsubfolders(loc, f, params, FALSE, NoneDict)
             IN  [loc |-> u.loc, value |-> u.loc.subentryfolderset, fscalls |-> u.fscalls]
    ELSE [loc |-> loc, value |-> loc.subentryfolderset, fscalls |-> <<>>]

\* os.rename(src, dst) of a directory src, dst relative to the working
\* directory of the process.  It fails (OSError) when src cannot be renamed
\* (bad) or is missing, when the directory of dst is missing, and when dst
\* exists, except that a POSIX system replaces an empty directory; renaming a
\* directory to itself does nothing.  Result: [ok, fs].
OsRename(f, pr, bad, src, dst) ==
    LET target == Normpath(pr.cwd \o dst)
        replaces == pr.posix /\ IsDir(f, target) /\ Listdir(f, target) = <<>>
        moved == { q \in DOMAIN f : IsPrefix(src, q) }
        NewPath(q) == target \o SubSeq(q, Len(src) + 1, Len(q))
    IN  IF \/ src \in bad
           \/ ~IsDir(f, src)
           \/ ~IsDir(f, Dirname(target))
           \/ target # src /\ Exists(f, target) /\ ~replaces
            THEN [ok |-> FALSE, fs |-> f]
        ELSE IF target = src THEN [ok |-> TRUE, fs |-> f]
        ELSE [ok |-> TRUE,
              fs |-> [q \in ((DOMAIN f \ moved) \cup { NewPath(m) : m \in moved }) |->
                         IF IsPrefix(target, q)
                             THEN f[src \o SubSeq(q, Len(target) + 1, Len(q))]
                         ELSE f[q]]]

\* A rename that reports success whatever os.rename did.
RenameSwallowingErrors(f, pr, bad, path, newname) ==
    [ok |-> TRUE, fs |-> OsRename(f, pr, bad, path, newname).fs]

\* SatelliteFileLocation.rename(path, newname): os.rename(path, newname).
Rename(f, pr, bad, path, newname) == OsRename(f, pr, bad, path, newname)

\* What a call leaves behind and hands back.
\* raised is "none" or the name of the exception that reaches the caller.
Outcome(loc, f, result, raised, fscalls) ==
    [loc |-> loc, fs |-> f, result |-> result, raised |-> raised, fscalls |-> fscalls]

\* The results of the catalog methods, one record shape for all.
ReturnsNone == [kind |-> "None", path |-> <<>>, flag |-> FALSE]

ReturnsPath(p) == [kind |-> "path", path |-> p, flag |-> FALSE]

ReturnsBool(b) == [kind |-> "bool", path |-> <<>>, flag |-> b]

\* The two property reads with which renamesubentryfolder begins,
\* SubentryfoldersByExpidSubidx and then ExpidSubidxByFolder; the local names
\* are bound to the object's own dicts.  Result: [loc, fscalls].
CatalogReads(loc, f, params) ==
    CHOOSE r \in UNION { { [loc |-> rev.loc, fscalls |-> fwd.fscalls \o rev.fscalls] :
                              rev \in { ExpidSubidxByFolder(fwd.loc, f, params) } } :
                          fwd \in { SubentryfoldersByExpidSubidx(loc, f, params) } } : TRUE

\* The catalog update of renamesubentryfolder after the filesystem rename:
\*   expid, subidx = ExpidSubidxByPath.pop(folderpath)
\*   ExpidSubidxByPath[newfolderpath] = (expid, subidx)
\*   SubentryfoldersByExpidSubidx[expid][subidx] = newfolderpath   (KeyError without expid)
\*   if self._subentryfolderset: discard(folderpath); add(newfolderpath)
RenameUpdate(loc, f, fscalls, folderpath, newfolderpath) ==
    LET ExpidSubidxByPath == loc.expidsubidxbyfolder.d
        ds == loc.cached.value
        expid == ExpidSubidxByPath[folderpath][1]
        subidx == ExpidSubidxByPath[folderpath][2]
        popped == [p \in (DOMAIN ExpidSubidxByPath \ {folderpath}) \cup {newfolderpath} |->
                      IF p = newfolderpath THEN <<expid, subidx>> ELSE ExpidSubidxByPath[p]]
    IN  IF expid \notin DOMAIN ds
            THEN Outcome([loc EXCEPT !.expidsubidxbyfolder = SomeDict(popped)],
                         f, ReturnsNone, "KeyError", fscalls)
        ELSE Outcome([loc EXCEPT !.expidsubidxbyfolder = SomeDict(popped),
                                 !.cached.value = (expid :> ((subidx :> newfolderpath) @@ ds[expid])) @@ ds,
                                 !.subentryfolderset =
                                     IF loc.subentryfolderset # {}
                                         THEN (loc.subentryfolderset \ {folderpath}) \cup {newfolderpath}
                                     ELSE loc.subentryfolderset],
                     f, ReturnsPath(newfolderpath), "none", fscalls)

\* renamesubentryfolder from the check 'if folderpath not in ExpidSubidxByPath'
\* on, r being the result of the property reads: the filesystem rename, whose
\* OSError is raised again as ValueError, then the catalog update.
RenameCatalogued(r, f, pr, bad, folderpath, newbasename) ==
    IF folderpath \notin DOMAIN r.loc.expidsubidxbyfolder.d
        THEN Outcome(r.loc, f, ReturnsNone, "none", r.fscalls)
    ELSE CHOOSE o \in { IF ~renamed.ok
                            THEN Outcome(r.loc, f, ReturnsNone, "ValueError", r.fscalls)
                        ELSE RenameUpdate(r.loc, renamed.fs, r.fscalls, folderpath,
                                          Normpath(Join(Dirname(folderpath), newbasename))) :
                        renamed \in { Rename(f, pr, bad, folderpath, <<newbasename>>) } } : TRUE

\* SatelliteLocation.renamesubentryfolder(folderpath, newbasename)
Renamesubentryfolder(loc, f, params, pr, bad, folderpath0, newbasename0) ==
    LET folderpath == Normpath(folderpath0)
        newbasename == Normpath(newbasename0)
    IN  IF Dirname(newbasename) # <<>> /\ Dirname(folderpath) # Dirname(newbasename)
            THEN Outcome(loc, f, ReturnsNone, "OSError", <<>>)
        ELSE CHOOSE o \in { RenameCatalogued(r, f, pr, bad, folderpath, Basename(newbasename)) :
                            r \in { CatalogReads(loc, f, params) } } : TRUE

\* ensuresubentryfoldername after its call of renamesubentryfolder, r being
\* that call's outcome: 'except OSError: return False', else 'return True'.
EnsureOutcome(r, fscalls) ==
    IF r.raised = "OSError"
        THEN Outcome(r.loc, r.fs, ReturnsBool(FALSE), "none", fscalls \o r.fscalls)
    ELSE IF r.raised # "none"
        THEN Outcome(r.loc, r.fs, ReturnsNone, r.raised, fscalls \o r.fscalls)
    ELSE Outcome(r.loc, r.fs, ReturnsBool(TRUE), "none", fscalls \o r.fscalls)

\* ensuresubentryfoldername from its read of the cached property on, fwd
\* being the result of the read.
EnsureWithCatalog(fwd, f, params, pr, bad, expid, subidx, subentryfoldername) ==
    IF expid \notin DOMAIN fwd.value
        THEN Outcome(fwd.loc, f, ReturnsNone, "none", fwd.fscalls)
    ELSE IF subidx \notin DOMAIN fwd.value[expid]
        THEN Outcome(fwd.loc, f, ReturnsNone, "none", fwd.fscalls)
    ELSE IF Basename(fwd.value[expid][subidx]) = subentryfoldername
        THEN Outcome(fwd.loc, f, ReturnsNone, "none", fwd.fscalls)
    ELSE CHOOSE o \in { EnsureOutcome(r, fwd.fscalls) :
                        r \in { Renamesubentryfolder(fwd.loc, f, params, pr, bad,
                                                     fwd.value[expid][subidx],
                                                     <<subentryfoldername>>) } } : TRUE

\* SatelliteLocation.ensuresubentryfoldername(expid, subidx, subentryfoldername)
Ensuresubentryfoldername(loc, f, params, pr, bad, expid, subidx, subentryfoldername0) ==
    CHOOSE o \in { EnsureWithCatalog(fwd, f, params, pr, bad, expid, subidx,
                                     Basename(subentryfoldername0)) :
                   fwd \in { SubentryfoldersByExpidSubidx(loc, f, params) } } : TRUE

(***************************************************************************)
(* Initial states: a local experiment tree and two satellite locations     *)
(***************************************************************************)

\* satA holds subentry folders ('./subentry/') and excludes '*.db' files.
SatAParams ==
    [rootdir |-> <<"satA">>, folderscheme |-> <<".", "subentry", "">>, donotsync |-> FALSE,
     ignoredirs |-> {}, file_exclude_patterns |-> <<"*.db">>, regexs |-> "default"]

\* satB holds experiment folders ('./experiment') and excludes nothing.
SatBParams ==
    [rootdir |-> <<"satB">>, folderscheme |-> <<".", "experiment">>, donotsync |-> FALSE,
     ignoredirs |-> {}, file_exclude_patterns |-> <<>>, regexs |-> "default"]

LocationConfigs == { [satA |-> SatAParams, satB |-> SatBParams] }

\* Mtimes (tenths of a second) of the files of the initial trees.
SatAMtime == 200

SatBMtime == 350

LocalMtimes == {50, 96, 400}

SatATree ==
    (<<"satA">> :> DirNode)
    @@ (<<"satA", "RS100a Sub">> :> DirNode)
    @@ (<<"satA", "RS100a Sub", "data.gel">> :> FileNode(SatAMtime, "A:data"))
    @@ (<<"satA", "RS100a Sub", "note.txt">> :> FileNode(SatAMtime, "A:note"))
    @@ (<<"satA", "RS100a Sub", "Thumbs.db">> :> FileNode(SatAMtime, "A:thumbs"))
    @@ (<<"satA", "RS100a Sub", "imgs">> :> DirNode)
    @@ (<<"satA", "RS100a Sub", "imgs", "img.png">> :> FileNode(SatAMtime, "A:img"))
    @@ (<<"satA", "RS100b Other">> :> DirNode)
    @@ (<<"satA", "RS100b Other", "data.gel">> :> FileNode(SatAMtime, "A:other"))
    @@ (<<"satA", "RS101a Gel">> :> DirNode)
    @@ (<<"satA", "RS101a Gel", "data.gel">> :> FileNode(SatAMtime, "A:gel"))
    @@ (<<"satA", "RS200a Remote">> :> DirNode)
    @@ (<<"satA", "RS200a Remote", "data.gel">> :> FileNode(SatAMtime, "A:remote"))

SatBTree ==
    (<<"satB">> :> DirNode)
    @@ (<<"satB", "RS100 Exp">> :> DirNode)
    @@ (<<"satB", "RS100 Exp", "RS100a Sub">> :> DirNode)
    @@ (<<"satB", "RS100 Exp", "RS100a Sub", "data.gel">> :> FileNode(SatBMtime, "B:data"))
    @@ (<<"satB", "RS100 Exp", "note.txt">> :> FileNode(SatBMtime, "B:note"))
    @@ (<<"satB", "RS100 Exp", "img.png">> :> OtherNode)
    @@ (<<"satB", "RS200 Far">> :> DirNode)
    @@ (<<"satB", "RS200 Far", "note.txt">> :> FileNode(SatBMtime, "B:far"))

\* The local subentry folder 'RS100 Title/RS100a Sub' in its initial variants:
\* missing, holding data.gel as a directory, or holding data.gel as a file.
LocalSubOptions ==
    { <<"absent", 0>>, <<"conflict", 0>> } \cup { <<"file", m>> : m \in LocalMtimes }

LocalSub(opt) ==
    LET d == <<"local", "RS100 Title", "RS100a Sub">>
    IN  CASE opt[1] = "absent" -> EmptyDict
          [] opt[1] = "conflict" -> (d :> DirNode) @@ (Append(d, "data.gel") :> DirNode)
          [] opt[1] = "file" -> (d :> DirNode) @@ (Append(d, "data.gel") :> FileNode(opt[2], "L:data"))

LocalTree(opt) ==
    (<<"local">> :> DirNode)
    @@ (<<"local", "RS100 Title">> :> DirNode)
    @@ (<<"local", "RS100 Title", "note.txt">> :> OtherNode)
    @@ (<<"local", "RS101 Two">> :> DirNode)
    @@ (<<"local", "RS300 Local">> :> DirNode)
    @@ (<<"local", "RS300 Local", "note.txt">> :> FileNode(SatAMtime, "L:note"))
    @@ LocalSub(opt)

InitialTrees == { LocalTree(opt) @@ SatATree @@ SatBTree : opt \in LocalSubOptions }

\* The sets of source files that cannot be read while a pass runs.
IoErrChoices == { {}, { <<"satA", "RS100a Sub", "data.gel">> } }

\* The orders in which a set of experiment ids may be iterated.
SetOrders == { <<"RS100", "RS101", "RS200", "RS300">>, <<"RS300", "RS200", "RS101", "RS100">> }

(***************************************************************************)
(* Operations                                                              *)
(***************************************************************************)

RemotesArgs == { <<>>, <<"satA">>, <<"satB">> }

OnlyExpidsArgs == { {}, {"RS100"} }

\* The verbosity levels of the command line (-v counted).
Verbosities == {0, 1, 2}

Op(name, remotes, onlyexpids, dryrun, w) ==
    [name |-> name, remotes |-> remotes, onlyexpids |-> onlyexpids, dryrun |-> dryrun,
     report |-> w.report, calls |-> w.calls, synced |-> w.synced, reconciled |-> w.reconciled,
     raised |-> w.raised]

Init ==
    /\ fs \in InitialTrees
    /\ locationparams \in LocationConfigs
    /\ ioerr \in IoErrChoices
    /\ setorder \in SetOrders
    /\ satstore = NewSatelliteLocation
    /\ proc = [cwd |-> LocalExpSubDir, posix |-> TRUE]
    /\ gen = NoGenerator
    /\ lastop = Op("init", <<>>, {}, FALSE, World(fs))

\* syncmgr.sync_remotes(remotes, onlyexpids=..., verbosity=..., dryrun=...);
\* sync_remotes([remote]) is sync_remote(remote) for a location that is synced.
SyncRemotesCall ==
    \E remotes \in RemotesArgs, onlyexpids \in OnlyExpidsArgs, dryrun \in BOOLEAN :
        \E w \in {SyncRemotes(World(fs), locationparams, ioerr, remotes, onlyexpids, dryrun, setorder)} :
            /\ fs' = w.fs
            /\ lastop' = Op("sync_remotes", remotes, onlyexpids, dryrun, w)
            /\ UNCHANGED <<locationparams, ioerr, setorder, satstore, proc, gen>>

Next == SyncRemotesCall

Spec == Init /\ [][Next]_vars

(***************************************************************************)
(* A second specification: syncFileToLocalDir alone, on one source file    *)
(* and one existing destination file, over a range of sub-second mtimes.   *)
(***************************************************************************)

\* The largest source and destination mtimes (tenths of a second) tried.
MaxSrcMtime == 150

MaxDstMtime == 25

FileSrc == <<"satA", "data.gel">>

FileDst == <<"local", "data.gel">>

FileTree(s, d) ==
    (<<"satA">> :> DirNode) @@ (FileSrc :> FileNode(s, "A:data"))
    @@ (<<"local">> :> DirNode) @@ (FileDst :> FileNode(d, "L:data"))

InitFile ==
    /\ fs \in { FileTree(s, d) : s \in 0..MaxSrcMtime, d \in 0..MaxDstMtime }
    /\ locationparams \in LocationConfigs
    /\ ioerr = {}
    /\ setorder \in { <<>> }
    /\ satstore = NewSatelliteLocation
    /\ proc = [cwd |-> LocalExpSubDir, posix |-> TRUE]
    /\ gen = NoGenerator
    /\ lastop = Op("init", <<>>, {}, FALSE, World(fs))

\* satloc.syncFileToLocalDir(satellitepath, localpath, dryrun=...)
SyncFileToLocalDirCall ==
    \E dryrun \in BOOLEAN :
        \E w \in {SyncFileToLocalDir(World(fs), locationparams["satA"], ioerr, FileSrc, Dirname(FileDst), dryrun)} :
            /\ fs' = w.fs
            /\ lastop' = Op("syncFileToLocalDir", <<"satA">>, {}, dryrun, w)
            /\ UNCHANGED <<locationparams, ioerr, setorder, satstore, proc, gen>>

NextFile == SyncFileToLocalDirCall

SpecFile == InitFile /\ [][NextFile]_vars

(***************************************************************************)
(* A third specification: the subentry-folder catalog of one satellite     *)
(* location (satA) under property reads, updates, cache expiry and renames. *)
(***************************************************************************)

CatalogLocation == "satA"

\* satA with three subentry folders, one of them empty, and a directory
\* outside the location in which the process may have been started.
CatalogTree ==
    (<<"satA">> :> DirNode)
    @@ (<<"satA", "RS100a Sub">> :> DirNode)
    @@ (<<"satA", "RS100a Sub", "data.gel">> :> FileNode(SatAMtime, "A:data"))
    @@ (<<"satA", "RS100b Other">> :> DirNode)
    @@ (<<"satA", "RS101a Gel">> :> DirNode)
    @@ (<<"satA", "RS101a Gel", "data.gel">> :> FileNode(SatAMtime, "A:gel"))
    @@ (<<"home">> :> DirNode)

\* The working directory of the process and whether os.rename follows POSIX.
ProcChoices == { [cwd |-> c, posix |-> x] : c \in { <<"satA">>, <<"home">> }, x \in BOOLEAN }

\* The sets of folders that the filesystem refuses to rename.
RenameErrChoices == { {}, { <<"satA", "RS101a Gel">> } }

RenamePaths == { <<"satA", "RS100a Sub">>, <<"satA", "RS101a Gel">>, <<"satA", "RS100a New">> }

\* New names: bare, with the folder's own parent, and with another parent.
RenameNames ==
    { <<"RS100a New">>, <<"RS100b Other">>, <<"satA", "RS100a New">>, <<"home", "RS100a New">> }

EnsureIdentities == { <<"RS100", "a">>, <<"RS101", "a">>, <<"RS200", "a">> }

EnsureNames == { <<"RS100a New">>, <<"RS100a Sub">>, <<"RS101a Gel">> }

\* The number of calls made to the location in one behaviour.
MaxCalls == 3

\* The record of the last call and the number of calls so far.
CatOp(name, args, o) ==
    [name |-> name, args |-> args, result |-> o.result, raised |-> o.raised, fscalls |-> o.fscalls,
     calls |-> IF name = "init" THEN 0 ELSE lastop.calls + 1]

InitCatalog ==
    /\ fs = CatalogTree
    /\ locationparams \in LocationConfigs
    /\ ioerr \in RenameErrChoices
    /\ setorder = <<>>
    /\ satstore = NewSatelliteLocation
    /\ proc \in ProcChoices
    /\ gen = NoGenerator
    /\ lastop = CatOp("init", <<>>, Outcome(satstore, fs, ReturnsNone, "none", <<>>))

\* A read of one of the three catalog properties.
PropertyRead ==
    \E name \in {"SubentryfoldersByExpidSubidx", "ExpidSubidxByFolder", "Subentryfoldersset"} :
        \E r \in { CASE name = "SubentryfoldersByExpidSubidx"
                          -> SubentryfoldersByExpidSubidx(satstore, fs, locationparams[CatalogLocation])
                     [] name = "ExpidSubidxByFolder"
                          -> ExpidSubidxByFolder(satstore, fs, locationparams[CatalogLocation])
                     [] OTHER -> Subentryfoldersset(satstore, fs, locationparams[CatalogLocation]) } :
            /\ satstore' = r.loc
            /\ lastop' = CatOp(name, <<>>, Outcome(r.loc, fs, ReturnsNone, "none", r.fscalls))
            /\ UNCHANGED <<fs, locationparams, ioerr, setorder, proc, gen>>

\* satloc.update_expsubfolders(clearcache=..., foldersbyexpidsubidx=...) with
\* no mapping, with a mapping just obtained from getSubentryfoldersByExpidSubidx
\* or with the mapping the cached property holds.
UpdateExpsubfoldersCall ==
    \E clearcache \in BOOLEAN,
       mapping \in { NoneDict, SomeDict(GetSubentryfoldersByExpidSubidx(fs, locationparams[CatalogLocation])),
                     SomeDict(satstore.cached.value) } :
        \E u \in { UpdateExpsubfolders(satstore, fs, locationparams[CatalogLocation], clearcache, mapping) } :
            /\ satstore' = u.loc
            /\ lastop' = CatOp("update_expsubfolders", <<clearcache, mapping>>,
                               Outcome(u.loc, fs, u.result, "none", u.fscalls))
            /\ UNCHANGED <<fs, locationparams, ioerr, setorder, proc, gen>>

\* More than ttl seconds pass: the cached property no longer holds its value.
CacheExpires ==
    /\ satstore.cached.has
    /\ satstore' = [satstore EXCEPT !.cached = NotCached]
    /\ lastop' = CatOp("expire", <<>>, Outcome(satstore', fs, ReturnsNone, "none", <<>>))
    /\ UNCHANGED <<fs, locationparams, ioerr, setorder, proc, gen>>

\* satloc.renamesubentryfolder(folderpath, newbasename)
RenamesubentryfolderCall ==
    \E folderpath \in RenamePaths, newbasename \in RenameNames :
        \E o \in { Renamesubentryfolder(satstore, fs, locationparams[CatalogLocation], proc, ioerr,
                                        folderpath, newbasename) } :
            /\ satstore' = o.loc
            /\ fs' = o.fs
            /\ lastop' = CatOp("renamesubentryfolder", <<folderpath, newbasename>>, o)
            /\ UNCHANGED <<locationparams, ioerr, setorder, proc, gen>>

\* satloc.ensuresubentryfoldername(expid, subidx, subentryfoldername)
EnsuresubentryfoldernameCall ==
    \E k \in EnsureIdentities, subentryfoldername \in EnsureNames :
        \E o \in { Ensuresubentryfoldername(satstore, fs, locationparams[CatalogLocation], proc, ioerr,
                                            k[1], k[2], subentryfoldername) } :
            /\ satstore' = o.loc
            /\ fs' = o.fs
            /\ lastop' = CatOp("ensuresubentryfoldername", <<k[1], k[2], subentryfoldername>>, o)
            /\ UNCHANGED <<locationparams, ioerr, setorder, proc, gen>>

NextCatalog ==
    /\ lastop.calls < MaxCalls
    /\ \/ PropertyRead
       \/ UpdateExpsubfoldersCall
       \/ CacheExpires
       \/ RenamesubentryfolderCall
       \/ EnsuresubentryfoldernameCall

SpecCatalog == InitCatalog /\ [][NextCatalog]_vars

(***************************************************************************)
(* A fourth specification: the directory-tree matcher and the catalogs and *)
(* duplicate reports computed from it, over trees with and without         *)
(* duplicate identities and over two sets of regexs.                       *)
(***************************************************************************)

\* satA ('./subentry/'), optionally with a second folder of identity (RS100, a).
MatcherTreeA(dup) ==
    (<<"satA">> :> DirNode)
    @@ (<<"satA", "RS100a Sub">> :> DirNode)
    @@ (<<"satA", "RS100b Other">> :> DirNode)
    @@ (<<"satA", "RS101a Gel">> :> DirNode)
    @@ (<<"satA", "note.txt">> :> FileNode(SatAMtime, "A:note"))
    @@ (IF dup THEN (<<"satA", "RS100a Dup">> :> DirNode) ELSE EmptyDict)

\* satB ('./experiment/subentry'), optionally with a second folder of experiment RS100.
MatcherTreeB(dup) ==
    (<<"satB">> :> DirNode)
    @@ (<<"satB", "RS100 A">> :> DirNode)
    @@ (<<"satB", "RS100 A", "RS100a Sub">> :> DirNode)
    @@ (<<"satB", "RS100 A", "data.gel">> :> FileNode(SatBMtime, "B:data"))
    @@ (<<"satB", "RS200 Far">> :> DirNode)
    @@ (<<"satB", "RS200 Far", "RS200a Remote">> :> DirNode)
    @@ (IF dup THEN (<<"satB", "RS100 Adup">> :> DirNode)
                    @@ (<<"satB", "RS100 Adup", "RS100a Dup">> :> DirNode)
        ELSE EmptyDict)

MatcherTrees == { MatcherTreeA(a) @@ MatcherTreeB(b) : a \in BOOLEAN, b \in BOOLEAN }

RegexsChoices == { "default", "untagged" }

MatcherConfigs ==
    { [satA |-> [SatAParams EXCEPT !.regexs = r],
       satB |-> [SatBParams EXCEPT !.regexs = r, !.folderscheme = <<".", "experiment", "subentry">>]] :
        r \in RegexsChoices }

\* The scheme levels a location can be matched up to.
MatcherTargets == { <<"satA", "subentry">>, <<"satB", "experiment">>, <<"satB", "subentry">> }

GroupArgs == { PlainGroup("expid"), TupleGroup(<<"expid">>), TupleGroup(<<"expid", "subentry_idx">>) }

\* countlim values; 0 stands for every value that is false in 'if countlim:'.
Countlims == 0..3

MatchOp(name, loc, args, result, raised, fscalls) ==
    [name |-> name, loc |-> loc, args |-> args, result |-> result, raised |-> raised,
     fscalls |-> fscalls]

InitMatcher ==
    /\ fs \in MatcherTrees
    /\ locationparams \in MatcherConfigs
    /\ ioerr = {}
    /\ setorder = <<>>
    /\ satstore = NewSatelliteLocation
    /\ proc = [cwd |-> LocalExpSubDir, posix |-> TRUE]
    /\ gen = NoGenerator
    /\ lastop = MatchOp("init", "", <<>>, EmptyDict, "none", <<>>)

\* satloc.genPathGroupdictTupByPathscheme(rightmost=...): the sequence is
\* built and no item of it is requested.
MatcherConstructCall ==
    \E t \in MatcherTargets :
        /\ lastop' = MatchOp("construct", t[1], <<t[2]>>, EmptyDict, "none",
                             GenConstructCalls(fs, locationparams[t[1]], t[2]))
        /\ UNCHANGED <<fs, locationparams, ioerr, setorder, satstore, proc, gen>>

\* list(satloc.genPathGroupdictTupByPathscheme(rightmost=...)): the sequence
\* is built and consumed to its end.
MatcherConsumeCall ==
    \E t \in MatcherTargets :
        /\ lastop' = MatchOp("consume", t[1], <<t[2]>>,
                             GenPathGroupdictTupByPathscheme(fs, locationparams[t[1]], t[2]), "none",
                             GenConsumeCalls(fs, locationparams[t[1]], t[2]))
        /\ UNCHANGED <<fs, locationparams, ioerr, setorder, satstore, proc, gen>>

\* satloc.getExpfoldersByExpid()
GetExpfoldersByExpidCall ==
    /\ lastop' = MatchOp("getExpfoldersByExpid", "satB", <<>>,
                         GetExpfoldersByExpid(fs, locationparams["satB"]), "none",
                         GenConsumeCalls(fs, locationparams["satB"], "experiment"))
    /\ UNCHANGED <<fs, locationparams, ioerr, setorder, satstore, proc, gen>>

\* satloc.getSubentryfoldersByExpidSubidx()
GetSubentryfoldersByExpidSubidxCall ==
    \E loc \in Locations :
        /\ lastop' = MatchOp("getSubentryfoldersByExpidSubidx", loc, <<>>,
                             GetSubentryfoldersByExpidSubidx(fs, locationparams[loc]), "none",
                             GenConsumeCalls(fs, locationparams[loc], "subentry"))
        /\ UNCHANGED <<fs, locationparams, ioerr, setorder, satstore, proc, gen>>

\* satloc.getFoldersWithSameProperty(group, rightmost=..., countlim=...)
GetFoldersWithSamePropertyCall ==
    \E t \in MatcherTargets, group \in GroupArgs, countlim \in Countlims :
        \E r \in { GetFoldersWithSameProperty(fs, locationparams[t[1]], group, t[2], countlim) } :
            /\ lastop' = MatchOp("getFoldersWithSameProperty", t[1], <<group, t[2], countlim>>,
                                 r.result, r.raised, GenConsumeCalls(fs, locationparams[t[1]], t[2]))
            /\ UNCHANGED <<fs, locationparams, ioerr, setorder, satstore, proc, gen>>

\* satloc.getDuplicates(subentries=...)
GetDuplicatesCall ==
    \E t \in MatcherTargets :
        \E r \in { GetDuplicates(fs, locationparams[t[1]], t[2] = "subentry") } :
            /\ lastop' = MatchOp("getDuplicates", t[1], <<t[2] = "subentry">>, r.result, r.raised,
                                 GenConsumeCalls(fs, locationparams[t[1]], t[2]))
            /\ UNCHANGED <<fs, locationparams, ioerr, setorder, satstore, proc, gen>>

NextMatcher ==
    \/ MatcherConstructCall
    \/ MatcherConsumeCall
    \/ GetExpfoldersByExpidCall
    \/ GetSubentryfoldersByExpidSubidxCall
    \/ GetFoldersWithSamePropertyCall
    \/ GetDuplicatesCall

SpecMatcher == InitMatcher /\ [][NextMatcher]_vars

(***************************************************************************)
(* A fifth specification: one sequence of genPathmatchTupsByPathscheme is  *)
(* built and then consumed item by item, over trees with a symbolic link   *)
(* back to the root, a broken link, names that a pattern matches only in   *)
(* their interior, a directory that cannot be listed, ignored directories  *)
(* and regexs dicts that lack the pattern of a scheme level.               *)
(***************************************************************************)

\* What 'RS100 Exp' is in satB: missing, a link to satB, or a broken link.
WalkLinkChoices == { "absent", "satB", "nowhere" }

WalkTree(link) ==
    (<<"satA">> :> DirNode)
    @@ (<<"satA", "RS100a Sub">> :> DirNode)
    @@ (<<"satA", "RS101a Gel">> :> DirNode)
    @@ (<<"satA", "old RS100a Sub">> :> DirNode)
    @@ (<<"satA", "RS100b Other">> :> FileNode(SatAMtime, "A:other"))
    @@ (<<"satB">> :> DirNode)
    @@ (<<"satB", "RS100 A">> :> DirNode)
    @@ (<<"satB", "RS100 A", "RS100a Sub">> :> DirNode)
    @@ (<<"satB", "RS100 A", "RS100b Other">> :> DirNode)
    @@ (<<"satB", "RS100 A", "old RS100a Sub">> :> DirNode)
    @@ (<<"satB", "RS100 A", "data.gel">> :> FileNode(SatBMtime, "B:data"))
    @@ (<<"satB", "RS101 Two">> :> DirNode)
    @@ (<<"satB", "RS101 Two", "RS101a Gel">> :> DirNode)
    @@ (<<"satB", "RS200 Far">> :> DirNode)
    @@ (<<"satB", "RS200 Far", "RS200a Remote">> :> DirNode)
    @@ (<<"satB", "RS200 Far", "RS100a Dup">> :> FileNode(SatBMtime, "B:dup"))
    @@ (<<"satB", "RS100a Sub">> :> DirNode)
    @@ (<<"satB", "old RS100 A">> :> DirNode)
    @@ (<<"satB", "old RS100 A", "RS100a New">> :> DirNode)
    @@ (<<"satB", "note.txt">> :> FileNode(SatBMtime, "B:note"))
    @@ (IF link = "absent" THEN EmptyDict ELSE (<<"satB", "RS100 Exp">> :> LinkNode(link)))

WalkTrees == { WalkTree(link) : link \in WalkLinkChoices }

\* The sets of directories that cannot be listed.
WalkErrChoices == { {}, { <<"satB", "RS101 Two">> }, { <<"satB">> } }

WalkRegexsChoices == { "default", "nosubentry", "noexperiment" }

\* satB is laid out as './experiment/subentry' or, one level deeper, as
\* './experiment/experiment/subentry'.
WalkSchemes ==
    { <<".", "experiment", "subentry">>, <<".", "experiment", "experiment", "subentry">> }

WalkIgnoreDirs == { {}, { "RS200 Far" } }

WalkConfigs ==
    { [satA |-> [SatAParams EXCEPT !.regexs = r],
       satB |-> [SatBParams EXCEPT !.regexs = r, !.folderscheme = scheme, !.ignoredirs = ign]] :
        r \in WalkRegexsChoices, scheme \in WalkSchemes, ign \in WalkIgnoreDirs }

\* The record of the last call on the sequence, with the filesystem calls
\* made and the items produced since the sequence was built.
WalkOp(name, loc, rightmost, outcome, fscalls, yielded) ==
    [name |-> name, loc |-> loc, rightmost |-> rightmost, outcome |-> outcome,
     fscalls |-> fscalls, yielded |-> yielded]

InitWalk ==
    /\ fs \in WalkTrees
    /\ locationparams \in WalkConfigs
    /\ ioerr \in WalkErrChoices
    /\ setorder = <<>>
    /\ satstore = NewSatelliteLocation
    /\ proc = [cwd |-> LocalExpSubDir, posix |-> TRUE]
    /\ gen = NoGenerator
    /\ lastop = WalkOp("init", "", "", "none", <<>>, <<>>)

\* gen = satloc.genPathGroupdictTupByPathscheme(rightmost=...)
GenBuildCall ==
    /\ lastop.name = "init"
    /\ \E t \in MatcherTargets :
        \E b \in { GenBuild(fs, locationparams[t[1]], ioerr, t[2]) } :
            /\ gen' = IF b.raised = "none" THEN Generator("open", t[1], <<b.frame>>) ELSE gen
            /\ lastop' = WalkOp("build", t[1], t[2], b.raised, b.fscalls, <<>>)
            /\ UNCHANGED <<fs, locationparams, ioerr, setorder, satstore, proc>>

\* next(gen): an item, StopIteration at the end of the sequence (and on every
\* later call), or the exception that ends the sequence.
GenNextCall ==
    /\ gen.status # "none"
    /\ \E r \in { GenNext(fs, locationparams[gen.loc], ioerr, gen.stack, <<>>) } :
        /\ gen' = GenAfterNext(gen, r)
        /\ lastop' = WalkOp("next", gen.loc, lastop.rightmost, r.outcome,
                            lastop.fscalls \o r.fscalls,
                            IF r.outcome = "item" THEN Append(lastop.yielded, r.item)
                            ELSE lastop.yielded)
        /\ UNCHANGED <<fs, locationparams, ioerr, setorder, satstore, proc>>

NextWalk ==
    \/ GenBuildCall
    \/ GenNextCall

SpecWalk == InitWalk /\ [][NextWalk]_vars

\* The consumer of the sequence goes on calling next() until the sequence ends.
SpecWalkFair == SpecWalk /\ WF_vars(GenNextCall)

(***************************************************************************)
(* Properties                                                              *)
(***************************************************************************)

IsLocal(p) == IsPrefix(LocalExpSubDir, p)

\* The part of the filesystem outside the local experiment directory.
SatellitePart(f) == [p \in {q \in DOMAIN f : ~IsLocal(q)} |-> f[p]]

\* A step is a pass of sync_remotes, with or without dryrun.
IsPass == lastop'.name = "sync_remotes"

IsRealPass == IsPass /\ ~lastop'.dryrun

\* The indices of the report lines that announce a copy or an overwrite.
CopyLines(report) == { i \in DOMAIN report : report[i].line.sym \in {"N", "O"} }

\* The locations a pass with the argument remotes goes through.
Selected(remotes) == IF remotes # <<>> THEN ToSet(remotes) ELSE Locations

SubentryLocations ==
    { r \in Locations : "subentry" \in ToSet(Schemekeys(locationparams[r].folderscheme)) }

\* The subentry folders [expid, subidx, path] of the catalog of location r.
RemoteSubentryFolders(f, r) ==
    LET ds == GetSubentryfoldersByExpidSubidx(f, locationparams[r])
    IN  UNION { { [expid |-> e, subidx |-> i, path |-> ds[e][i]] : i \in DOMAIN ds[e] } :
                  e \in DOMAIN ds }

\* The identities (expid, subentry_idx) of the subentry folders inside the
\* local experiment folders.
LocalSubentryIds(f) ==
    LET exps == FindLocalExpsPathGdTupByExpid(f)
    IN  { <<RegexMatch("subentry", Last(p)).expid, RegexMatch("subentry", Last(p)).subentry_idx>> :
            p \in { q \in DOMAIN f : /\ Len(q) > 1
                                     /\ \E e \in DOMAIN exps : Front(q) = Normpath(exps[e])
                                     /\ f[q].kind = "dir"
                                     /\ RegexMatch("subentry", Last(q)) # NoMatch } }

\* A copy call of the pass reads from inside the folder path.
CopiedFrom(calls, path) ==
    \E i \in DOMAIN calls : IsPrefix(Normpath(path), Normpath(calls[i].src))

\* C1: when a pass over one satellite location without dryrun has completed
\* and the same pass is run again with the same arguments on the trees it
\* left, the second pass makes no copytree or copy2 call, reports no new (N)
\* or overwritten (O) item and leaves the filesystem as it was.
C1_SecondPassCopiesNothing ==
    [][ ( /\ lastop.name = "sync_remotes" /\ ~lastop.dryrun /\ lastop.raised = "none"
          /\ IsRealPass
          /\ Len(lastop.remotes) = 1
          /\ lastop'.remotes = lastop.remotes
          /\ lastop'.onlyexpids = lastop.onlyexpids )
        => ( /\ lastop'.calls = <<>>
             /\ CopyLines(lastop'.report) = {}
             /\ fs' = fs ) ]_vars

\* A second pass over satA for RS100 alone: the folder 'RS100b Other' the
\* first pass copied is there, nothing of another pass is, and the second
\* pass skipped the copied file as current without any copy call.
C1_Witness ==
    /\ lastop.name = "sync_remotes" /\ ~lastop.dryrun /\ lastop.raised = "none"
    /\ lastop.remotes = <<"satA">> /\ lastop.onlyexpids = {"RS100"}
    /\ ioerr = {}
    /\ Stat(fs, <<"local", "RS100 Title", "RS100b Other", "data.gel">>).data = "A:other"
    /\ ~Exists(fs, <<"local", "RS101 Two", "RS101a Gel">>)
    /\ \A p \in DOMAIN fs : IsLocal(p) => fs[p].data \notin {"B:data", "B:note"}
    /\ lastop.calls = <<>>
    /\ \E i \in DOMAIN lastop.report :
          /\ lastop.report[i].line.sym = "S"
          /\ lastop.report[i].line.dst = <<"local", "RS100 Title", "RS100b Other", "data.gel">>

\* C2 (as claimed): a pass of sync_remotes never ends with the I/O error of
\* one copy propagating out of it.
C2_PassNeverRaises ==
    lastop.name = "sync_remotes" => lastop.raised \notin {"OSError", "Error"}

\* C3 (as claimed): no pass copies anything from a subentry folder of a
\* subentry-scheme satellite whose identity (expid, subentry_idx) has no
\* subentry folder in the local tree.
C3_UnmatchedSubentryNotActedOn ==
    [][ IsPass =>
          \A r \in SubentryLocations : \A sf \in RemoteSubentryFolders(fs, r) :
              <<sf.expid, sf.subidx>> \notin LocalSubentryIds(fs)
                  => ~CopiedFrom(lastop'.calls, sf.path) ]_vars

\* C3 (amended): the subentry reconciler decides by experiment id alone.
\* Nothing is copied from a remote subentry folder whose expid has no local
\* experiment folder or is outside a given allow-list; a remote subentry
\* folder of a common, allowed expid that has no same-named folder in the
\* local experiment folder is, by a completed pass without dryrun, copied
\* there as a whole.
C3_UnmatchedSubentryCopiedByExpid ==
    [][ IsPass =>
          \A r \in SubentryLocations : \A sf \in RemoteSubentryFolders(fs, r) :
              LET exps == FindLocalExpsPathGdTupByExpid(fs)
                  allowed == /\ sf.expid \in DOMAIN exps
                             /\ lastop'.onlyexpids # {} => sf.expid \in lastop'.onlyexpids
              IN  /\ ~allowed => ~CopiedFrom(lastop'.calls, sf.path)
                  /\ ( /\ allowed /\ ~lastop'.dryrun /\ lastop'.raised = "none"
                       /\ r \in Selected(lastop'.remotes)
                       /\ ~Exists(fs, Join(exps[sf.expid], Basename(sf.path))) )
                     => /\ IsDir(fs', Join(exps[sf.expid], Basename(sf.path)))
                        /\ \E i \in DOMAIN lastop'.calls :
                              /\ lastop'.calls[i].fn = "copytree"
                              /\ lastop'.calls[i].src = Normpath(sf.path) ]_vars

\* After a pass over satA, the local experiment RS100, which had no subentry
\* 'b', holds the copied folder 'RS100b Other', and nothing of 'RS200a Remote'
\* was copied.
C3_Witness ==
    /\ lastop.name = "sync_remotes" /\ ~lastop.dryrun /\ lastop.raised = "none"
    /\ "satA" \in Selected(lastop.remotes)
    /\ \E i \in DOMAIN lastop.calls :
          /\ lastop.calls[i].fn = "copytree"
          /\ lastop.calls[i].src = <<"satA", "RS100b Other">>
          /\ lastop.calls[i].dst = <<"local", "RS100 Title", "RS100b Other">>
    /\ Stat(fs, <<"local", "RS100 Title", "RS100b Other", "data.gel">>).data = "A:other"
    /\ \A p \in DOMAIN fs : IsLocal(p) => Last(p) # "RS200a Remote"

\* C4: every syncToLocalDir call of a reconciler is for an experiment id
\* that is a key of the local catalog and of the catalog of the satellite it
\* reads, and is in the allow-list when one is given; its source is that
\* satellite's folder of the id and its target the local folder of the id,
\* and every copy call of the pass stays inside such a pair.
C4_OnlyCommonExpids ==
    [][ IsPass =>
          LET exps == FindLocalExpsPathGdTupByExpid(fs)
              catalog(r) == IF r \in SubentryLocations
                                THEN GetSubentryfoldersByExpidSubidx(fs, locationparams[r])
                                ELSE GetExpfoldersByExpid(fs, locationparams[r])
              sources(r, e) == IF r \in SubentryLocations
                                   THEN { catalog(r)[e][i] : i \in DOMAIN catalog(r)[e] }
                                   ELSE { catalog(r)[e] }
              Of(root) == CHOOSE r \in Locations : locationparams[r].rootdir = root
              good(c) == /\ c.expid \in DOMAIN exps
                         /\ c.expid \in DOMAIN catalog(Of(c.root))
                         /\ lastop'.onlyexpids # {} => c.expid \in lastop'.onlyexpids
                         /\ Of(c.root) \in Selected(lastop'.remotes)
                         /\ Normpath(c.src) \in sources(Of(c.root), c.expid)
                         /\ c.dst = exps[c.expid]
          IN  /\ \A i \in DOMAIN lastop'.synced : good(lastop'.synced[i])
              /\ \A j \in DOMAIN lastop'.calls :
                    \E i \in DOMAIN lastop'.synced :
                        /\ IsPrefix(Normpath(lastop'.synced[i].src), Normpath(lastop'.calls[j].src))
                        /\ IsPrefix(Normpath(lastop'.synced[i].dst), Normpath(lastop'.calls[j].dst)) ]_vars

\* A pass over both satellites without an allow-list made calls for the
\* common ids RS100 and RS101 while RS200 (remote only) and RS300 (local
\* only) exist, and copied files.
C4_Witness ==
    /\ lastop.name = "sync_remotes" /\ ~lastop.dryrun /\ lastop.onlyexpids = {}
    /\ { lastop.synced[i].expid : i \in DOMAIN lastop.synced } = {"RS100", "RS101"}
    /\ Exists(fs, <<"satA", "RS200a Remote">>) /\ Exists(fs, <<"satB", "RS200 Far">>)
    /\ Exists(fs, <<"local", "RS300 Local">>)
    /\ lastop.calls # <<>>

\* C5 (as claimed): no file of a satellite location whose name matches one
\* of the location's file_exclude_patterns has a copy of the same name in
\* the local tree.
C5_ExcludedNeverCopied ==
    \A r \in Locations : \A q \in DOMAIN fs :
        ( /\ IsPrefix(locationparams[r].rootdir, q)
          /\ fs[q].kind = "file"
          /\ Excluded(locationparams[r], Last(q)) )
        => \A p \in DOMAIN fs : (IsLocal(p) /\ Last(p) = Last(q)) => fs[p] # fs[q]

\* C6: a pass of sync_remotes with dryrun set makes no copy call and leaves
\* the whole filesystem, local tree and satellite trees, as it was.
C6_DryRunChangesNothing ==
    [][ (IsPass /\ lastop'.dryrun) => (fs' = fs /\ lastop'.calls = <<>>) ]_vars

\* A dry run on an initial tree announced copies and the tree is still the
\* initial one.
C6_Witness ==
    /\ lastop.name = "sync_remotes" /\ lastop.dryrun
    /\ CopyLines(lastop.report) # {}
    /\ fs \in InitialTrees

\* C7 (as claimed): when no source file is unreadable, a pass with dryrun
\* set followed by the same pass without dryrun, with the same arguments on
\* the same trees, prints the same report lines in the same order at every
\* verbosity.
C7_DryRunReportsSame ==
    [][ ( /\ lastop.name = "sync_remotes" /\ lastop.dryrun
          /\ IsRealPass
          /\ lastop'.remotes = lastop.remotes
          /\ lastop'.onlyexpids = lastop.onlyexpids
          /\ ioerr = {} )
        => \A v \in Verbosities : Printed(lastop'.report, v) = Printed(lastop.report, v) ]_vars

\* A call of syncFileToLocalDir without dryrun in the second specification.
IsFileSync == lastop'.name = "syncFileToLocalDir" /\ ~lastop'.dryrun

\* The call replaced the destination file by the source file.
Overwrites == lastop'.calls # <<>> /\ fs'[FileDst] = fs[FileSrc]

\* C8 (as claimed): an existing destination file is not overwritten when
\* it is newer than the source or older by less than the tolerance, and is
\* overwritten whenever it is strictly older than the source minus the
\* tolerance, mtimes being in tenths of a second.
C8_OverwrittenWheneverOlderThanTolerance ==
    [][ IsFileSync =>
          LET s == fs[FileSrc].mtime
              d == fs[FileDst].mtime
          IN  /\ (d >= s \/ s - d < 10 * ToleranceSeconds) => ~Overwrites
              /\ d < s - 10 * ToleranceSeconds => Overwrites ]_vars

\* C8 (amended): the two mtimes are compared after rounding each to whole
\* seconds.  A destination newer than the source, or older by at most the
\* tolerance, is never overwritten; one more than a second older than the
\* source minus the tolerance always is; in between, and exactly when both
\* mtimes are whole seconds, it is overwritten iff the rounded source mtime
\* exceeds the rounded destination mtime by more than the tolerance.
C8_OverwrittenByRoundedMtimes ==
    [][ IsFileSync =>
          LET s == fs[FileSrc].mtime
              d == fs[FileDst].mtime
          IN  /\ s - d <= 10 * ToleranceSeconds => (~Overwrites /\ fs' = fs)
              /\ s - d > 10 * (ToleranceSeconds + 1) => Overwrites
              /\ (s % 10 = 0 /\ d % 10 = 0) => (Overwrites <=> s - d > 10 * ToleranceSeconds)
              /\ Overwrites <=> Round(s) > Round(d) + ToleranceSeconds ]_vars

\* A destination older than the source by more than the tolerance and less
\* than a second more was left as it is and reported as skipped.
C8_Witness ==
    /\ lastop.name = "syncFileToLocalDir" /\ ~lastop.dryrun
    /\ fs[FileSrc].mtime - fs[FileDst].mtime > 10 * ToleranceSeconds
    /\ fs[FileDst].data = "L:data"
    /\ lastop.calls = <<>>
    /\ \E i \in DOMAIN lastop.report : lastop.report[i].line.sym = "S"

\* C9: every path of the local tree is still there after a pass, with the
\* kind (folder, file, other) it had; the content of a local file changes
\* only to that of a same-named regular file of a satellite whose rounded
\* mtime exceeds the local file's by more than the tolerance, written by a
\* copy2 call onto it.
C9_LocalTreeOnlyGrows ==
    [][ IsPass =>
          \A p \in DOMAIN fs : IsLocal(p) =>
              /\ p \in DOMAIN fs'
              /\ fs'[p].kind = fs[p].kind
              /\ fs'[p] # fs[p] =>
                    /\ fs[p].kind = "file"
                    /\ \E q \in DOMAIN fs :
                          /\ ~IsLocal(q) /\ fs[q].kind = "file" /\ Last(q) = Last(p)
                          /\ fs'[p] = fs[q]
                          /\ Round(fs[q].mtime) > Round(fs[p].mtime) + ToleranceSeconds
                          /\ \E i \in DOMAIN lastop'.calls :
                                /\ lastop'.calls[i].fn = "copy2"
                                /\ lastop'.calls[i].src = q
                                /\ Normpath(lastop'.calls[i].dst) = p ]_vars

\* A pass overwrote the local data.gel of 'RS100a Sub' with a satellite's
\* and merged new files into the existing folder, whose other local entries
\* are as before.
C9_Witness ==
    /\ lastop.name = "sync_remotes" /\ ~lastop.dryrun
    /\ \E i \in DOMAIN lastop.report :
          /\ lastop.report[i].line.sym = "O"
          /\ lastop.report[i].line.dst = <<"local", "RS100 Title", "RS100a Sub", "data.gel">>
    /\ Stat(fs, <<"local", "RS100 Title", "RS100a Sub", "data.gel">>).data \in {"A:data", "B:data"}
    /\ Exists(fs, <<"local", "RS100 Title", "RS100a Sub", "note.txt">>)
    /\ Stat(fs, <<"local", "RS100 Title", "note.txt">>) = OtherNode
    /\ Stat(fs, <<"local", "RS300 Local", "note.txt">>).data = "L:note"

\* C10: no step changes anything outside the local tree: the satellite
\* trees keep every path, kind, content and mtime.
C10_SatelliteUnchanged ==
    [][ SatellitePart(fs') = SatellitePart(fs) ]_vars

\* A pass without dryrun copied and overwrote local files, and the satellite
\* trees are the initial ones.
C10_Witness ==
    /\ lastop.name = "sync_remotes" /\ ~lastop.dryrun
    /\ \E i, j \in DOMAIN lastop.calls :
          /\ lastop.calls[i].fn = "copytree" /\ lastop.calls[i].ok
          /\ lastop.calls[j].fn = "copy2" /\ lastop.calls[j].ok
    /\ \E i \in DOMAIN lastop.report : lastop.report[i].line.sym = "O"
    /\ SatellitePart(fs) = SatATree @@ SatBTree

(***************************************************************************)
(* Properties of the catalog (specification SpecCatalog)                   *)
(***************************************************************************)

CatalogParams == locationparams[CatalogLocation]

\* The location after the two property reads with which renamesubentryfolder
\* begins: the catalog as the call finds it.
CatalogAsRead == CatalogReads(satstore, fs, CatalogParams).loc

\* The paths held by the forward index ds[expid][subidx] = path.
ForwardPaths(ds) == { ds[k[1]][k[2]] : k \in Identities(ds) }

\* The step is a call of renamesubentryfolder that returned the new path.
RenameSucceeds ==
    /\ lastop'.name = "renamesubentryfolder"
    /\ lastop'.raised = "none"
    /\ lastop'.result.kind = "path"

\* C11 (as claimed): after renamesubentryfolder succeeds for a catalogued
\* path, the old path is in none of forward index, reverse index and path
\* set, the new path maps to the identity the old path mapped to and that
\* identity maps to the new path, and the number of entries is unchanged.
C11_RenameKeepsBijection ==
    [][ RenameSucceeds =>
          LET old == Normpath(lastop'.args[1])
              new == lastop'.result.path
              before == CatalogAsRead
              k == before.expidsubidxbyfolder.d[old]
          IN  /\ old \notin DOMAIN satstore'.expidsubidxbyfolder.d
              /\ old \notin satstore'.subentryfolderset
              /\ old \notin ForwardPaths(satstore'.cached.value)
              /\ new \in DOMAIN satstore'.expidsubidxbyfolder.d
              /\ satstore'.expidsubidxbyfolder.d[new] = k
              /\ satstore'.cached.value[k[1]][k[2]] = new
              /\ Cardinality(DOMAIN satstore'.expidsubidxbyfolder.d)
                     = Cardinality(DOMAIN before.expidsubidxbyfolder.d)
              /\ Cardinality(satstore'.subentryfolderset) = Cardinality(before.subentryfolderset)
              /\ Cardinality(Identities(satstore'.cached.value))
                     = Cardinality(Identities(before.cached.value)) ]_vars

\* C12 (as claimed): after renamesubentryfolder succeeds, the returned path
\* is the old parent joined with the new base name, the folder is on the
\* filesystem at that path and no longer at the old one.
C12_RenamedFolderAtNewPath ==
    [][ RenameSucceeds =>
          LET old == Normpath(lastop'.args[1])
              new == lastop'.result.path
          IN  /\ new = Normpath(Join(Dirname(old), Basename(Normpath(lastop'.args[2]))))
              /\ IsDir(fs', new)
              /\ new # old => ~Exists(fs', old) ]_vars
\* The step is a call of renamesubentryfolder whose new name carries a parent
\* directory other than the folder's.
RenameOtherParent ==
    /\ lastop'.name = "renamesubentryfolder"
    /\ Dirname(Normpath(lastop'.args[2])) # <<>>
    /\ Dirname(Normpath(lastop'.args[2])) # Dirname(Normpath(lastop'.args[1]))

\* The step is a call of renamesubentryfolder for a catalogued folder, with
\* an acceptable new name, whose rename the filesystem refuses.
RenameRefused ==
    /\ lastop'.name = "renamesubentryfolder"
    /\ ~RenameOtherParent
    /\ Normpath(lastop'.args[1]) \in DOMAIN CatalogAsRead.expidsubidxbyfolder.d
    /\ ~OsRename(fs, proc, ioerr, Normpath(lastop'.args[1]),
                 <<Basename(Normpath(lastop'.args[2]))>>).ok

\* The three collections have been built and the cached property holds its value.
CatalogWarm == satstore.cached.has /\ satstore.subentryfolderset # {}

\* C13: a renamesubentryfolder that fails, because the new name carries
\* another parent directory or because the filesystem rename raises, raises
\* an error to the caller, renames nothing and leaves forward index, reverse
\* index and path set as they were: as the object held them when they were
\* already built, and otherwise as the call's own first reads of the two
\* properties built them, without any trace of the rename.
C13_FailedRenameLeavesCatalog ==
    [][ /\ RenameOtherParent => lastop'.raised = "OSError" /\ satstore' = satstore /\ fs' = fs
        /\ RenameRefused =>
              /\ lastop'.raised = "ValueError"
              /\ satstore' = CatalogAsRead
              /\ CatalogWarm => satstore' = satstore
              /\ fs' = fs ]_vars

\* A rename of the catalogued 'RS101a Gel' was refused by the filesystem and
\* raised; the folder is where it was and all three entries are in place.
C13_Witness ==
    /\ lastop.name = "renamesubentryfolder" /\ lastop.raised = "ValueError"
    /\ lastop.args = << <<"satA", "RS101a Gel">>, <<"RS100a New">> >>
    /\ lastop.calls > 1
    /\ IsDir(fs, <<"satA", "RS101a Gel">>)
    /\ satstore.cached.has
    /\ satstore.cached.value["RS101"]["a"] = <<"satA", "RS101a Gel">>
    /\ satstore.expidsubidxbyfolder.d[<<"satA", "RS101a Gel">>] = <<"RS101", "a">>
    /\ Cardinality(satstore.subentryfolderset) = 3
\* C14 (as claimed): ensuresubentryfoldername reports its outcome as the
\* return value and never raises for a rename problem: None when the
\* identity is not in the catalog or the folder already has the name, True
\* after a successful rename, False when the filesystem rename fails.
C14_EnsureNeverRaises ==
    [][ lastop'.name = "ensuresubentryfoldername" =>
          LET ds == SubentryfoldersByExpidSubidx(satstore, fs, CatalogParams).value
              expid == lastop'.args[1]
              subidx == lastop'.args[2]
              name == Basename(lastop'.args[3])
              known == expid \in DOMAIN ds /\ subidx \in DOMAIN ds[expid]
          IN  /\ lastop'.raised = "none"
              /\ lastop'.result =
                    IF ~known \/ Basename(ds[expid][subidx]) = name THEN ReturnsNone
                    ELSE IF OsRename(fs, proc, ioerr, ds[expid][subidx], <<name>>).ok
                        THEN ReturnsBool(TRUE)
                    ELSE ReturnsBool(FALSE) ]_vars
\* No two subentry folders of the location's tree have the same (expid, subentry_idx).
NoDuplicateIdentities(f) ==
    LET tups == GenPathGroupdictTupByPathscheme(f, CatalogParams, "subentry")
    IN  \A i, j \in DOMAIN tups : i # j => tups[i].gd # tups[j].gd

\* The step is a read of the cached property that finds no held value and so
\* builds the catalog: getSubentryfoldersByExpidSubidx, folded by update_expsubfolders.
CatalogBuild ==
    /\ lastop'.name = "SubentryfoldersByExpidSubidx"
    /\ ~satstore.cached.has

\* C15: immediately after a catalog build over a tree without duplicate
\* identities, every identity's path maps back to the identity, every
\* path's identity maps back to the path, and the path set is the key set
\* of the reverse index.
C15_BuildGivesBijection ==
    [][ CatalogBuild /\ NoDuplicateIdentities(fs) =>
          LET ds == satstore'.cached.value
              rev == satstore'.expidsubidxbyfolder.d
          IN  /\ satstore'.cached.has /\ ~satstore'.expidsubidxbyfolder.none
              /\ \A k \in Identities(ds) :
                    ds[k[1]][k[2]] \in DOMAIN rev /\ rev[ds[k[1]][k[2]]] = k
              /\ \A p \in DOMAIN rev :
                    rev[p] \in Identities(ds) /\ ds[rev[p][1]][rev[p][2]] = p
              /\ satstore'.subentryfolderset = DOMAIN rev ]_vars

\* The catalog has just been built over the three subentry folders of satA.
C15_Witness ==
    /\ lastop.name = "SubentryfoldersByExpidSubidx" /\ lastop.fscalls # <<>>
    /\ satstore.cached.has
    /\ Identities(satstore.cached.value) = { <<"RS100", "a">>, <<"RS100", "b">>, <<"RS101", "a">> }
    /\ satstore.expidsubidxbyfolder.d[<<"satA", "RS100b Other">>] = <<"RS100", "b">>
    /\ Cardinality(satstore.subentryfolderset) = 3
\* The step is a call of update_expsubfolders.
UpdateStep == lastop'.name = "update_expsubfolders"

\* The returned tuple (newexpsubidx, newsubentryfolders, removedsubentryfolders)
\* is the set differences between the path set the object held and the one
\* it holds now, with the identities of the new paths.
ResultIsSetDifference ==
    /\ lastop'.result[2] = satstore'.subentryfolderset \ satstore.subentryfolderset
    /\ lastop'.result[3] = satstore.subentryfolderset \ satstore'.subentryfolderset
    /\ lastop'.result[1] = { satstore'.expidsubidxbyfolder.d[p] : p \in lastop'.result[2] }

MatchedFolders(rightmost) == GenPathGroupdictTupByPathscheme(fs, locationparams[lastop.loc], rightmost)

\* C17 (as claimed): in getExpfoldersByExpid and in
\* getSubentryfoldersByExpidSubidx a matched folder whose merged groupdict
\* lacks 'expid' (or, for subentries, 'subentry_idx') is entered under no
\* key, and the build completes with the other folders entered.
C17_IncompleteGroupdictSkipped ==
    /\ lastop.name = "getExpfoldersByExpid" =>
          LET tups == MatchedFolders("experiment")
          IN  /\ lastop.raised = "none"
              /\ \A i \in DOMAIN tups :
                    IF "expid" \in DOMAIN tups[i].gd
                        THEN tups[i].gd["expid"] \in DOMAIN lastop.result
                    ELSE \A k \in DOMAIN lastop.result : lastop.result[k] # tups[i].path
    /\ lastop.name = "getSubentryfoldersByExpidSubidx" =>
          LET tups == MatchedFolders("subentry")
          IN  /\ lastop.raised = "none"
              /\ \A i \in DOMAIN tups :
                    IF {"expid", "subentry_idx"} \subseteq DOMAIN tups[i].gd
                        THEN <<tups[i].gd["expid"], tups[i].gd["subentry_idx"]>> \in Identities(lastop.result)
                    ELSE tups[i].path \notin ForwardPaths(lastop.result)
\* The last call is getFoldersWithSameProperty (directly or through
\* getDuplicates) and returned a mapping.
IsGrouping ==
    /\ lastop.name \in {"getFoldersWithSameProperty", "getDuplicates"}
    /\ lastop.raised = "none"

\* The arguments (group, rightmost, countlim) of the grouping of the last call.
GroupingArgs ==
    IF lastop.name = "getFoldersWithSameProperty" THEN lastop.args
    ELSE IF lastop.args[1] THEN << TupleGroup(<<"expid", "subentry_idx">>), "subentry", 2 >>
    ELSE << PlainGroup("expid"), "experiment", 2 >>

\* The values of the group fields of a matched folder.
GroupValues(t) == [i \in DOMAIN GroupingArgs[1].names |-> t.gd[GroupingArgs[1].names[i]]]

\* C18: getFoldersWithSameProperty(group, rightmost, countlim=n), and
\* getDuplicates with n = 2, return exactly the groups of matched folders
\* with at least n paths: every group returned holds, once each, the paths
\* of all folders with its field values, and a set of field values has a
\* group iff at least n folders carry it; with n = 1 every matched path is
\* in exactly one group.
C18_GroupsOfAtLeastCountlim ==
    IsGrouping =>
        LET tups == MatchedFolders(GroupingArgs[2])
            n == GroupingArgs[3]
            Same(vals) == { i \in DOMAIN tups : GroupValues(tups[i]) = vals }
            res == lastop.result
        IN  /\ \A k \in DOMAIN res :
                  /\ Len(res[k]) >= n
                  /\ Len(res[k]) = Cardinality(Same(k.vals))
                  /\ ToSet(res[k]) = { tups[i].path : i \in Same(k.vals) }
            /\ \A i \in DOMAIN tups :
                  Cardinality(Same(GroupValues(tups[i]))) >= n
                      => \E k \in DOMAIN res : k.vals = GroupValues(tups[i])
            /\ \A k1, k2 \in DOMAIN res : k1.vals = k2.vals => k1 = k2
            /\ n = 1 => \A i \in DOMAIN tups :
                  Cardinality({ k \in DOMAIN res : tups[i].path \in ToSet(res[k]) }) = 1

\* getDuplicates(subentries=True) over satA with the siblings 'RS100a Dup'
\* and 'RS100a Sub': one group, of the two, and no singleton.
C18_Witness ==
    /\ lastop.name = "getDuplicates" /\ lastop.loc = "satA" /\ lastop.args[1]
    /\ lastop.raised = "none"
    /\ Cardinality(DOMAIN lastop.result) = 1
    /\ \E k \in DOMAIN lastop.result :
          /\ k.vals = <<"RS100", "a">>
          /\ lastop.result[k] = << <<"satA", "RS100a Dup">>, <<"satA", "RS100a Sub">> >>
    /\ IsDir(fs, <<"satA", "RS101a Gel">>)
\* Scenario C: the last call groups the experiment folders of satB, which
\* holds 'RS100 A' and 'RS100 Adup', by group='expid' with countlim=2.
ScenarioC ==
    /\ IsGrouping
    /\ lastop.loc = "satB"
    /\ GroupingArgs = << PlainGroup("expid"), "experiment", 2 >>
    /\ IsDir(fs, <<"satB", "RS100 Adup">>)

ScenarioCPaths == << <<"satB", "RS100 A">>, <<"satB", "RS100 Adup">> >>

\* C19 (as claimed): in Scenario C the result is one entry whose key is the
\* 1-tuple ('RS100',) and whose value is the list of both paths; in general
\* a single field name gives 1-tuple keys.
C19_SingleFieldGivesTupleKey ==
    /\ ScenarioC => lastop.result = ([tuple |-> TRUE, vals |-> <<"RS100">>] :> ScenarioCPaths)
    /\ IsGrouping /\ ~GroupingArgs[1].tuple =>
          \A k \in DOMAIN lastop.result : k.tuple /\ Len(k.vals) = 1

\* C19 (amended): the keys have the shape of the group argument: for a
\* single field name the key is the field's plain value, for a tuple or
\* list of names it is the tuple of the values.  In Scenario C the result is
\* one entry whose key is 'RS100' and whose value is the list of both paths
\* in listing order.
C19_KeyHasShapeOfGroup ==
    /\ ScenarioC => lastop.result = ([tuple |-> FALSE, vals |-> <<"RS100">>] :> ScenarioCPaths)
    /\ IsGrouping =>
          \A k \in DOMAIN lastop.result :
              /\ k.tuple = GroupingArgs[1].tuple
              /\ Len(k.vals) = Len(GroupingArgs[1].names)

\* getDuplicates() over satB with 'RS100 A' and 'RS100 Adup' returned its one entry.
C19_Witness ==
    /\ ScenarioC
    /\ lastop.name = "getDuplicates"
    /\ Cardinality(DOMAIN lastop.result) = 1
    /\ \E k \in DOMAIN lastop.result : lastop.result[k] = ScenarioCPaths
\* C20 (as claimed): building the matcher sequence makes no filesystem
\* call, neither a listing nor an isdir test; the first call is made when
\* the first item is requested.
C20_ConstructionMakesNoCall ==
    lastop.name = "construct" => lastop.fscalls = <<>>
(***************************************************************************)
(* Properties of the sequence consumed item by item (specification         *)
(* SpecWalk)                                                               *)
(***************************************************************************)

\* The location and its parameters of the sequence last built or advanced.
WalkParams == locationparams[lastop'.loc]

\* The scheme levels of the sequence: the folderscheme truncated at rightmost.
WalkSchemekeys == Schemekeys(GetFolderschemeUpTo(WalkParams.folderscheme, lastop'.rightmost))

\* A level of the truncated scheme has no pattern in the location's regexs.
PatternMissing == \E i \in DOMAIN WalkSchemekeys : WalkSchemekeys[i] \notin PatternKeys(WalkParams.regexs)

\* C21: whenever a level name of the truncated scheme, at whatever level, is
\* missing from the regexs, the call that builds the sequence raises the
\* configuration error (KeyError) and has made no filesystem call.
C21_MissingPatternFailsAtBuild ==
    [][ (lastop'.name = "build" /\ PatternMissing)
            => (lastop'.outcome = "KeyError" /\ lastop'.fscalls = <<>> /\ gen'.status = "none") ]_vars
\* The names a directory entry can have.
Names == ToSet(NameOrder)

\* The names that a pattern matches only in their interior, not from their
\* first character.
InteriorOnlyNames == { "old RS100 A", "old RS100a Sub" }

\* The paths n levels below the base folders, n being the number of
\* schemekeys, for which every component below the base passes the filter and
\* has a name that the pattern of its level matches from the first character.
RECURSIVE QualifyingBelow(_, _, _, _)
QualifyingBelow(f, params, schemekeys, basefolders) ==
    IF schemekeys = <<>> THEN basefolders
    ELSE QualifyingBelow(f, params, Tail(schemekeys),
            { Join(b, n) : b \in basefolders,
                           n \in { m \in Names \ InteriorOnlyNames :
                                     RegexsMatch(params.regexs, schemekeys[1], m) # NoMatch } }
            \cap { q \in { Join(b, n) : b \in basefolders, n \in Names } :
                     OsIsDir(f, q) /\ Basename(q) \notin params.ignoredirs })

\* The accumulator of a path: the groupdicts of the components below the
\* base path merged from the top level down.
RECURSIVE ChainGroupdict(_, _, _, _)
ChainGroupdict(params, schemekeys, names, basematch) ==
    IF schemekeys = <<>> THEN basematch
    ELSE ChainGroupdict(params, Tail(schemekeys), Tail(names),
                        MergeGroupdict(basematch, RegexsMatch(params.regexs, schemekeys[1], Head(names))))

\* The sequence of the last call was consumed to its end without an exception.
WalkCompleted == lastop.name = "next" /\ gen.status = "done"

WalkedParams == locationparams[lastop.loc]

WalkedSchemekeys == Schemekeys(GetFolderschemeUpTo(WalkedParams.folderscheme, lastop.rightmost))

WalkedBase == GetRealPath(WalkedParams.rootdir)

\* C23: a sequence consumed to its end has yielded exactly the paths at depth
\* n below the base path (n = number of levels of the truncated scheme) whose
\* components all pass the filter and match the pattern of their level from
\* the first character; each of them once, none of an intermediate level, and
\* each with the accumulator of its own chain of ancestors.
C23_YieldsExactlyQualifyingPaths ==
    WalkCompleted =>
        /\ ToSet(PathsOf(lastop.yielded))
              = QualifyingBelow(fs, WalkedParams, WalkedSchemekeys, {WalkedBase})
        /\ \A i, j \in DOMAIN lastop.yielded :
              lastop.yielded[i].path = lastop.yielded[j].path => i = j
        /\ \A i \in DOMAIN lastop.yielded :
              /\ Len(lastop.yielded[i].path) = Len(WalkedBase) + Len(WalkedSchemekeys)
              /\ lastop.yielded[i].gd
                    = ChainGroupdict(WalkedParams, WalkedSchemekeys,
                                     SubSeq(lastop.yielded[i].path, Len(WalkedBase) + 1,
                                            Len(lastop.yielded[i].path)),
                                     EmptyDict)

\* A three-level walk that ended after going through the link back to the
\* base path, in a tree that holds folders with interior-only matches, a file
\* with a matching name and an ignored directory.
C23_Witness ==
    /\ WalkCompleted
    /\ Len(WalkedSchemekeys) = 3
    /\ WalkedParams.ignoredirs # {}
    /\ \E i \in DOMAIN lastop.yielded :
          lastop.yielded[i].path = <<"satB", "RS100 Exp", "RS100 Exp", "RS100a Sub">>
    /\ OsIsDir(fs, <<"satB", "old RS100 A", "RS100a New">>)
    /\ Len(lastop.yielded) >= 4
\* The qualifying paths none of whose ancestors below or at the base path is a
\* directory that cannot be listed.
QualifyingReadable ==
    { q \in QualifyingBelow(fs, WalkedParams, WalkedSchemekeys, {WalkedBase}) :
        \A k \in Len(WalkedBase)..(Len(q) - 1) : Realpath(fs, <<>>, SubSeq(q, 1, k)) \notin ioerr }

\* The sequence of the last call has ended, by StopIteration or by an exception.
WalkEnded == lastop.name = "next" /\ gen.status \in {"done", "raised"}

\* C22: a filesystem call that fails on one entry during the walk (isdir on a
\* broken link, the listing of a matched directory that cannot be read) only
\* excludes that entry: with a pattern for every level, the sequence ends by
\* StopIteration, never by the error, and has yielded every qualifying path
\* outside the failing entry.
C22_EntryErrorsAreIsolated ==
    (WalkEnded /\ \A i \in DOMAIN WalkedSchemekeys : WalkedSchemekeys[i] \in PatternKeys(WalkedParams.regexs))
        => /\ gen.status = "done"
           /\ QualifyingReadable \subseteq ToSet(PathsOf(lastop.yielded))
\* No frame of the generator and no filesystem call of the walk is more
\* levels below the base path than the truncated scheme has.
WalkDepthBound ==
    lastop.name \in {"build", "next"} =>
        /\ Len(gen.stack) <= Len(WalkedSchemekeys)
        /\ \A i \in DOMAIN gen.stack :
              Len(gen.stack[i].basefolder) < Len(WalkedBase) + Len(WalkedSchemekeys)
        /\ \A i \in DOMAIN lastop.fscalls :
              Len(lastop.fscalls[i].path) <= Len(WalkedBase) + Len(WalkedSchemekeys)

\* C30: a sequence that is consumed reaches its end (StopIteration, or the
\* exception that ends it) after finitely many calls of next(), and the walk
\* never goes more levels below the base path than the scheme has, also in a
\* tree with a link from a folder back to its ancestor.
C30_WalkTerminates ==
    /\ []WalkDepthBound
    /\ (gen.status = "open") ~> (gen.status \in {"done", "raised"})

\* A walk over three levels has ended after it went twice through the link
\* 'RS100 Exp', which points back to the base path.
C30_Witness ==
    /\ gen.status = "done"
    /\ <<"satB", "RS100 Exp">> \in DOMAIN fs
    /\ fs[<<"satB", "RS100 Exp">>] = LinkNode("satB")
    /\ \E i \in DOMAIN lastop.fscalls :
          lastop.fscalls[i] = FsCall("listdir", <<"satB", "RS100 Exp", "RS100 Exp">>)

(***************************************************************************)
(* A sixth specification: sync passes (sync_remotes) and single            *)
(* sync_remote calls over locations whose donotsync flag and folderscheme  *)
(* vary, a folderscheme without 'subentry' and 'experiment' included, and  *)
(* over a satA whose folder of subentry (RS100, a) has the local folder's  *)
(* base name or another one.                                               *)
(***************************************************************************)

DispatchSchemesA == { <<".", "subentry", "">>, <<".", "year">> }

DispatchSchemesB == { <<".", "experiment">>, <<".", "experiment", "subentry">>, <<".", "year">> }

DispatchConfigs ==
    { [satA |-> [SatAParams EXCEPT !.folderscheme = sa, !.donotsync = da],
       satB |-> [SatBParams EXCEPT !.folderscheme = sb, !.donotsync = db]] :
        sa \in DispatchSchemesA, sb \in DispatchSchemesB, da \in BOOLEAN, db \in BOOLEAN }

\* The base names of satA's folder of subentry (RS100, a).
DispatchSubNames == { "RS100a Sub", "RS100a New" }

DispatchSatATree(name) ==
    (<<"satA">> :> DirNode)
    @@ (<<"satA", name>> :> DirNode)
    @@ (<<"satA", name, "data.gel">> :> FileNode(SatAMtime, "A:data"))
    @@ (<<"satA", "RS101a Gel">> :> DirNode)
    @@ (<<"satA", "RS101a Gel", "data.gel">> :> FileNode(SatAMtime, "A:gel"))

DispatchTrees ==
    { LocalTree(<<"file", SatAMtime>>) @@ DispatchSatATree(name) @@ SatBTree :
        name \in DispatchSubNames }

DispatchRemotesArgs == { <<>>, <<"satA">>, <<"satB">>, <<"satA", "satB">> }

InitDispatch ==
    /\ fs \in DispatchTrees
    /\ locationparams \in DispatchConfigs
    /\ ioerr = {}
    /\ setorder \in SetOrders
    /\ satstore = NewSatelliteLocation
    /\ proc = [cwd |-> LocalExpSubDir, posix |-> TRUE]
    /\ gen = NoGenerator
    /\ lastop = Op("init", <<>>, {}, FALSE, World(fs))

\* syncmgr.sync_remotes(remotes, dryrun=...) over the whole configuration.
SyncRemotesPass ==
    \E remotes \in DispatchRemotesArgs, dryrun \in BOOLEAN :
        \E w \in {SyncRemotes(World(fs), locationparams, ioerr, remotes, {}, dryrun, setorder)} :
            /\ fs' = w.fs
            /\ lastop' = Op("sync_remotes", remotes, {}, dryrun, w)
            /\ UNCHANGED <<locationparams, ioerr, setorder, satstore, proc, gen>>

\* syncmgr.sync_remote(remote, dryrun=...)
SyncRemoteCall ==
    \E remote \in Locations, dryrun \in BOOLEAN :
        \E w \in {SyncRemote(World(fs), locationparams, ioerr, remote, {}, dryrun, setorder)} :
            /\ fs' = w.fs
            /\ lastop' = Op("sync_remote", <<remote>>, {}, dryrun, w)
            /\ UNCHANGED <<locationparams, ioerr, setorder, satstore, proc, gen>>

NextDispatch ==
    \/ SyncRemotesPass
    \/ SyncRemoteCall

SpecDispatch == InitDispatch /\ [][NextDispatch]_vars

\* The locations that the reconcilers were called for in the last operation.
ReconciledRemotes(op) == { op.reconciled[i].remote : i \in DOMAIN op.reconciled }

\* The last operation called a reconciler (each starts by listing the local
\* tree and the location), recorded a syncToLocalDir call or copied a file.
DidIO(op) == op.reconciled # <<>> \/ op.synced # <<>> \/ op.calls # <<>>

\* C24: a location flagged donotsync is skipped by a pass over all locations
\* (no remotes named) and is reconciled by a pass that names it explicitly.
C24_DoNotSyncSkippedUnlessNamed ==
    [][\A r \in Locations :
         (/\ lastop'.name = "sync_remotes"
          /\ locationparams[r].donotsync
          /\ "subentry" \in ToSet(Schemekeys(locationparams[r].folderscheme))
               \/ "experiment" \in ToSet(Schemekeys(locationparams[r].folderscheme)))
         => /\ lastop'.remotes = <<>> => r \notin ReconciledRemotes(lastop')
            /\ lastop'.remotes = <<r>> => r \in ReconciledRemotes(lastop')]_vars

\* C25: a pass that ends in the hard failure for an unsupported folderscheme
\* has done no I/O for any location and has left the tree as it was.
C25_ConfigFailurePrecedesIO ==
    [][(lastop'.name = "sync_remotes" /\ lastop'.raised = "NotImplementedError")
         => ~DidIO(lastop') /\ fs' = fs]_vars

\* C26: sync_remote calls sync_subentries (only) iff the folderscheme has a
\* 'subentry' level, sync_experimentfolders (only) iff it has 'experiment'
\* and no 'subentry', and otherwise raises NotImplementedError with no
\* reconciler called, nothing copied and the tree unchanged.
C26_GranularityDispatch ==
    [][lastop'.name = "sync_remote" =>
         LET r == lastop'.remotes[1]
             keys == ToSet(Schemekeys(locationparams[r].folderscheme))
             called(m) == lastop'.reconciled = << [remote |-> r, method |-> m] >>
         IN  /\ called("sync_subentries") <=> "subentry" \in keys
             /\ called("sync_experimentfolders") <=> ("experiment" \in keys /\ "subentry" \notin keys)
             /\ ("subentry" \notin keys /\ "experiment" \notin keys)
                  => /\ lastop'.raised = "NotImplementedError"
                     /\ ~DidIO(lastop')
                     /\ fs' = fs]_vars

\* sync_remote was called for a location with scheme './experiment/subentry'
\* and copied through sync_subentries.
C26_Witness ==
    /\ lastop.name = "sync_remote"
    /\ lastop.remotes = <<"satB">>
    /\ locationparams["satB"].folderscheme = <<".", "experiment", "subentry">>
    /\ lastop.reconciled = << [remote |-> "satB", method |-> "sync_subentries"] >>
    /\ lastop.calls # <<>>

(***************************************************************************)
(* A seventh specification: check_duplicates over a local tree and two     *)
(* satellite locations that all use the scheme './experiment/subentry',    *)
(* where each location is empty, names its folders as the local tree does, *)
(* or names them differently.                                              *)
(***************************************************************************)

\* The ExperimentManager's Rootdir, Folderscheme, IgnoreDirs and Regexs.
LocalExpParams ==
    [rootdir |-> LocalExpSubDir, folderscheme |-> <<".", "experiment", "subentry">>,
     donotsync |-> FALSE, ignoredirs |-> {}, file_exclude_patterns |-> <<>>, regexs |-> "default"]

\* The keys of the dict that getFoldersWithSameProperty builds, in insertion order.
FoldersWithSamePropertyKeys(f, params, group, rightmost) ==
    LET tups == GenPathGroupdictTupByPathscheme(f, params, rightmost)
    IN  InsertionOrder([i \in DOMAIN tups |-> Groupgetter(group, tups[i].gd)], {})

\* A key of the dict, bound to the name 'group' and passed on as group=group:
\* a string stays a plain field name, a tuple stays a tuple of field names.
KeyAsGroup(key) == [tuple |-> key.tuple, names |-> key.vals]

\* try: foldersbygroup[group] += folders / except KeyError: foldersbygroup[group] = folders
\* for every item of the remote's dict.
MergeFolders(foldersbygroup, remotefolders) ==
    [k \in DOMAIN foldersbygroup \cup DOMAIN remotefolders |->
        (IF k \in DOMAIN foldersbygroup THEN foldersbygroup[k] ELSE <<>>)
        \o (IF k \in DOMAIN remotefolders THEN remotefolders[k] ELSE <<>>)]

\* for remote in remotes.values():
\*     for group, folders in remote.getFoldersWithSameProperty(group=group, ...).items(): ...
\* The inner loop binds the name 'group' to each key of the remote's dict,
\* and the next remote is called with the value the name then has.
RECURSIVE CrosscheckLoop(_, _, _, _, _, _)
CrosscheckLoop(f, allparams, names, rightmost, group, acc) ==
    IF names = <<>> \/ acc.raised # "none" THEN acc
    ELSE LET params == allparams[Head(names)]
             r == GetFoldersWithSameProperty(f, params, group, rightmost, 1)
             keys == FoldersWithSamePropertyKeys(f, params, group, rightmost)
         IN  IF r.raised # "none" THEN [acc EXCEPT !.raised = r.raised]
             ELSE CrosscheckLoop(f, allparams, Tail(names), rightmost,
                                 IF keys = <<>> THEN group ELSE KeyAsGroup(Last(keys)),
                                 [acc EXCEPT !.d = MergeFolders(@, r.result)])

\* {group: folderlist ... if len(folderlist) > 1
\*  and len(set(os.path.basename(folder) for folder in folderlist)) > 1}
DivergentFolders(foldersbygroup) ==
    [k \in { k \in DOMAIN foldersbygroup :
               /\ Len(foldersbygroup[k]) > 1
               /\ Cardinality({ Basename(foldersbygroup[k][i]) : i \in DOMAIN foldersbygroup[k] }) > 1 } |->
        foldersbygroup[k]]

\* The remotes argument: None, or a dict of locations by name (its keys in order).
NoRemotes == [none |-> TRUE, names |-> <<>>]

RemotesDict(names) == [none |-> FALSE, names |-> names]

\* The 'if crosscheck:' part of check_duplicates: [d, raised].
Crosscheck(f, allparams, remotes, subentries) ==
    LET rightmost == IF subentries THEN "subentry" ELSE "experiment"
        group == IF subentries THEN TupleGroup(<<"expid", "subentry_idx">>) ELSE PlainGroup("expid")
        loc == GetFoldersWithSameProperty(f, LocalExpParams, group, rightmost, 1)
        names == IF remotes.names = <<>> THEN LocationsSorted ELSE remotes.names
        acc == CrosscheckLoop(f, allparams, names, rightmost, group,
                              [d |-> loc.result, raised |-> loc.raised])
    IN  IF acc.raised # "none" THEN [d |-> EmptyDict, raised |-> acc.raised]
        ELSE [d |-> DivergentFolders(acc.d), raised |-> "none"]

\* The dicts printed by the first two parts of check_duplicates: the local
\* duplicates and the duplicates of each remote.
RECURSIVE RemoteDups(_, _, _, _)
RemoteDups(f, allparams, names, subentries) ==
    IF names = <<>> THEN <<>>
    ELSE << [of |-> Head(names), dups |-> GetDuplicates(f, allparams[Head(names)], subentries).result] >>
         \o RemoteDups(f, allparams, Tail(names), subentries)

PrintedDups(f, allparams, local, remotes, subentries, crosscheck) ==
    (IF local \/ (remotes.none /\ ~crosscheck)
        THEN << [of |-> "local", dups |-> GetDuplicates(f, LocalExpParams, subentries).result] >>
     ELSE <<>>)
    \o (IF remotes.none THEN <<>>
        ELSE RemoteDups(f, allparams,
                        IF remotes.names = <<>> THEN LocationsSorted ELSE remotes.names, subentries))

\* SyncManager.check_duplicates(local, remotes, subentries, crosscheck), rename=False.
CheckDuplicates(f, allparams, local, remotes, subentries, crosscheck) ==
    LET c == IF crosscheck THEN Crosscheck(f, allparams, remotes, subentries)
             ELSE [d |-> EmptyDict, raised |-> "none"]
    IN  [dups |-> PrintedDups(f, allparams, local, remotes, subentries, crosscheck),
         flagged |-> c.d, raised |-> c.raised]

CrosscheckConfigs ==
    { [satA |-> [SatAParams EXCEPT !.folderscheme = <<".", "experiment", "subentry">>],
       satB |-> [SatBParams EXCEPT !.folderscheme = <<".", "experiment", "subentry">>]] }

\* What a satellite location holds: nothing, the folders of experiment RS100
\* under the names of the local tree, or under other names.
CrosscheckVariants == { "empty", "same", "other" }

CrosscheckSatTree(root, variant, expname, subname) ==
    (<<root>> :> DirNode)
    @@ (IF variant = "empty" THEN EmptyDict
        ELSE LET e == IF variant = "same" THEN "RS100 Title" ELSE expname
                 s == IF variant = "same" THEN "RS100a Sub" ELSE subname
             IN  (<<root, e>> :> DirNode)
                 @@ (<<root, e, s>> :> DirNode)
                 @@ (<<root, "RS200 Far">> :> DirNode)
                 @@ (<<root, "RS200 Far", "RS200a Remote">> :> DirNode))

CrosscheckTrees ==
    { LocalTree(<<"file", SatAMtime>>)
      @@ CrosscheckSatTree("satA", a, "RS100 A", "RS100a New")
      @@ CrosscheckSatTree("satB", b, "RS100 Exp", "RS100a Dup") :
        a \in CrosscheckVariants, b \in CrosscheckVariants }

CrosscheckRemotesArgs ==
    { NoRemotes, RemotesDict(<<>>), RemotesDict(<<"satA">>), RemotesDict(<<"satB">>),
      RemotesDict(<<"satA", "satB">>), RemotesDict(<<"satB", "satA">>) }

CheckOp(name, local, remotes, subentries, crosscheck, r) ==
    [name |-> name, local |-> local, remotes |-> remotes, subentries |-> subentries,
     crosscheck |-> crosscheck, dups |-> r.dups, flagged |-> r.flagged, raised |-> r.raised]

InitCrosscheck ==
    /\ fs \in CrosscheckTrees
    /\ locationparams \in CrosscheckConfigs
    /\ ioerr = {}
    /\ setorder = <<>>
    /\ satstore = NewSatelliteLocation
    /\ proc = [cwd |-> LocalExpSubDir, posix |-> TRUE]
    /\ gen = NoGenerator
    /\ lastop = CheckOp("init", FALSE, NoRemotes, FALSE, FALSE,
                        [dups |-> <<>>, flagged |-> EmptyDict, raised |-> "none"])

\* syncmgr.check_duplicates(local=..., remotes=..., subentries=..., crosscheck=...)
CheckDuplicatesCall ==
    \E local \in BOOLEAN, remotes \in CrosscheckRemotesArgs, subentries \in BOOLEAN,
       crosscheck \in BOOLEAN :
        \E r \in { CheckDuplicates(fs, locationparams, local, remotes, subentries, crosscheck) } :
            /\ lastop' = CheckOp("check_duplicates", local, remotes, subentries, crosscheck, r)
            /\ UNCHANGED <<fs, locationparams, ioerr, setorder, satstore, proc, gen>>

NextCrosscheck == CheckDuplicatesCall

SpecCrosscheck == InitCrosscheck /\ [][NextCrosscheck]_vars

\* The locations a crosscheck covers besides the local tree.
CrosscheckedNames(op) == IF op.remotes.names = <<>> THEN LocationsSorted ELSE op.remotes.names

\* The key spec of a crosscheck and the scheme level it reads.
CrosscheckGroup(op) ==
    IF op.subentries THEN TupleGroup(<<"expid", "subentry_idx">>) ELSE PlainGroup("expid")

CrosscheckRightmost(op) == IF op.subentries THEN "subentry" ELSE "experiment"

\* The folders of the local tree and of every covered location whose
\* identity under the key spec is k.
FoldersOfIdentity(f, allparams, op, k) ==
    LET tupsof(params) == ToSet(GenPathGroupdictTupByPathscheme(f, params, CrosscheckRightmost(op)))
        all == tupsof(LocalExpParams)
               \cup UNION { tupsof(allparams[n]) : n \in ToSet(CrosscheckedNames(op)) }
    IN  { t.path : t \in { u \in all : Groupgetter(CrosscheckGroup(op), u.gd) = k } }

\* The identities, under the key spec, of all those folders.
IdentitiesCovered(f, allparams, op) ==
    LET tupsof(params) == ToSet(GenPathGroupdictTupByPathscheme(f, params, CrosscheckRightmost(op)))
        all == tupsof(LocalExpParams)
               \cup UNION { tupsof(allparams[n]) : n \in ToSet(CrosscheckedNames(op)) }
    IN  { Groupgetter(CrosscheckGroup(op), u.gd) : u \in all }

\* C27: a crosscheck does not fail and flags exactly the identities that
\* have more than one folder over the local tree and all covered locations,
\* with base names that are not all equal, each with all its folders.
C27_CrosscheckSameKeyForAllRemotes ==
    (lastop.name = "check_duplicates" /\ lastop.crosscheck) =>
        /\ lastop.raised = "none"
        /\ DOMAIN lastop.flagged =
             { k \in IdentitiesCovered(fs, locationparams, lastop) :
                 LET folders == FoldersOfIdentity(fs, locationparams, lastop, k)
                 IN  /\ Cardinality(folders) > 1
                     /\ Cardinality({ Basename(p) : p \in folders }) > 1 }
        /\ \A k \in DOMAIN lastop.flagged :
             ToSet(lastop.flagged[k]) = FoldersOfIdentity(fs, locationparams, lastop, k)

\* No two subentry folders of the local tree share an (expid, subentry_idx):
\* the ExperimentManager's getDuplicateSubentries() finds nothing.
NoLocalDuplicateSubentries(f) == GetDuplicates(f, LocalExpParams, TRUE).result = EmptyDict

\* C29: a sync pass or sync_remote call that starts on a local tree without
\* duplicate subentry identities leaves it without any.
C29_SyncIntroducesNoLocalDuplicate ==
    [][(lastop'.name \in {"sync_remotes", "sync_remote"} /\ NoLocalDuplicateSubentries(fs))
         => NoLocalDuplicateSubentries(fs')]_vars

(***************************************************************************)
(* An eighth specification: the catalog of satA under property reads,      *)
(* updates, cache expiry and renames, while subentry folders are added to  *)
(* and removed from the location by others.                                *)
(***************************************************************************)

\* The folder that appears in the location, and the one that disappears.
ExternalNewFolder == <<"satA", "RS200a Remote">>

ExternalOldFolder == <<"satA", "RS100b Other">>

\* Somebody else creates a subentry folder in the location.
ExternalAdd ==
    /\ ExternalNewFolder \notin DOMAIN fs
    /\ fs' = fs @@ (ExternalNewFolder :> DirNode)
    /\ lastop' = CatOp("external add", <<ExternalNewFolder>>,
                       Outcome(satstore, fs', ReturnsNone, "none", <<>>))
    /\ UNCHANGED <<locationparams, ioerr, setorder, satstore, proc, gen>>

\* Somebody else removes a subentry folder, with all it holds, from the location.
ExternalRemove ==
    /\ ExternalOldFolder \in DOMAIN fs
    /\ fs' = [p \in { q \in DOMAIN fs : ~IsPrefix(ExternalOldFolder, q) } |-> fs[p]]
    /\ lastop' = CatOp("external remove", <<ExternalOldFolder>>,
                       Outcome(satstore, fs', ReturnsNone, "none", <<>>))
    /\ UNCHANGED <<locationparams, ioerr, setorder, satstore, proc, gen>>

NextCatalogExt ==
    /\ lastop.calls < MaxCalls
    /\ \/ PropertyRead
       \/ UpdateExpsubfoldersCall
       \/ CacheExpires
       \/ RenamesubentryfolderCall
       \/ ExternalAdd
       \/ ExternalRemove

SpecCatalogExt == InitCatalog /\ [][NextCatalogExt]_vars

\* The (identity, path) pairs of a forward index ds[expid][subidx] = path
\* and of a reverse index d[path] = (expid, subidx).
ForwardPairs(ds) == { <<k, ds[k[1]][k[2]]>> : k \in Identities(ds) }

ReversePairs(d) == { <<d[p], p>> : p \in DOMAIN d }

\* C28: whenever the location holds a forward index and a reverse index,
\* they describe the same (identity, path) pairs, and the path set is the
\* key set of the reverse index.
C28_IndexesStayConsistent ==
    /\ (satstore.cached.has /\ ~satstore.expidsubidxbyfolder.none)
         => ForwardPairs(satstore.cached.value) = ReversePairs(satstore.expidsubidxbyfolder.d)
    /\ ~satstore.expidsubidxbyfolder.none
         => satstore.subentryfolderset = DOMAIN satstore.expidsubidxbyfolder.d

=============================================================================
